---- MODULE Spec2Model ----
(***************************************************************************)
(* Renovate -> Jira agent (src/main.py, src/decision.py).                  *)
(*                                                                         *)
(* The tracker (Jira) and the source host (GitHub) are modelled as state:  *)
(* the tracker is a function from ticket keys to issue records, a pull     *)
(* request is a record.  Every function of main.py that talks to them is   *)
(* an operator that takes the state and returns the state after it, the    *)
(* value it returns and the collaborator calls it made (a log).            *)
(*                                                                         *)
(* An HTTP request fails when its endpoint is in the fault set of the      *)
(* handler call; the fault set is an input of every action.                *)
(***************************************************************************)
EXTENDS Integers, Sequences, FiniteSets, TLC

\* ------------------------------------------------------------------ bounds
NumPRs == 2
MaxKey == 4
MaxRuns == 2
MaxFaults == 1
MaxDev == 2
MaxIssues == 2
MaxEdits == 1
MaxDryDev == 3
MaxTitle == 2
MaxBody == 1
MaxWords == 3

\* ------------------------------------------------------- program constants
NoKey == 0
DryRunKey == -1
MaxResults == 5

PRs == 1..NumPRs
Keys == 1..MaxKey

\* Every endpoint the agent calls; a fault set is a subset of these.
Endpoints ==
  {"search_summary", "search_title", "search_token", "get_issue", "get_links",
   "add_link", "update", "create", "myself", "project", "list_transitions",
   "fire_transition", "get_labels", "list_comments", "add_comment", "add_labels",
   "edit_title", "edit_title_issue"}

RECURSIVE SubsetsUpTo(_, _)
\* the subsets of S of at most n elements
SubsetsUpTo(S, n) ==
  IF n = 0 THEN {{}}
  ELSE LET prev == SubsetsUpTo(S, n - 1)
       IN prev \cup {D \cup {x} : D \in prev, x \in S}

FaultSets == SubsetsUpTo(Endpoints, MaxFaults)

SeqsUpTo(T, n) == UNION {[1..k -> T] : k \in 0..n}

\* str.lower() on the status names of the model.
Lower(s) ==
  CASE s = "Withdrawn" -> "withdrawn"
    [] s = "WITHDRAWN" -> "withdrawn"
    [] s = "Open" -> "open"
    [] s = "OPEN" -> "open"
    [] s = "In Progress" -> "in progress"
    [] s = "IN PROGRESS" -> "in progress"
    [] s = "Closed" -> "closed"
    [] s = "Resume QA" -> "resume qa"
    [] s = "Resume Development" -> "resume development"
    [] s = "Resume Release" -> "resume release"
    [] OTHER -> s

JIRA_SKIP_STATUSES == {"resume development", "resume qa", "resume release"}
JIRA_FIX_VERSION == "CCD CI/CD Release"
JIRA_EPIC_KEY == "CCD-7071"

\* ------------------------------------------------------------------- state
VARIABLES
  conf,           \* environment settings and repository configuration of the run
  jira,           \* the tracker: key -> issue
  nextKey,        \* the key the tracker gives the next created issue
  prs,            \* the pull requests: id -> record
  phase,          \* position of the program
  run,            \* number of the current run of main()
  idx,            \* pull request the loop of main() is at
  created_count,  \* main(): created_count
  preflight_ok,   \* _JIRA_PREFLIGHT_OK
  log,            \* collaborator calls of the last handler call, in order
  outcome,        \* how the last handler call ended
  created,        \* pr -> number of create-issue calls that succeeded, over all runs
  cur,            \* the pull request of the last handler call
  found,          \* results of the calls of jira_find_existing_issue, in order
  clean,          \* no request has failed so far
  faults,         \* the requests that fail during the calls of the search
  pending,        \* the snapshot jira_ensure_ticket_fields read and has yet to act on
  manual          \* what a human put on the ticket meanwhile: labels and fix versions

vars == <<conf, jira, nextKey, prs, phase, run, idx, created_count, preflight_ok,
          log, outcome, created, cur, found, clean, faults, pending, manual>>

\* ------------------------------------------------------------- small helpers
\* A log entry: the request op about ticket key, a detail arg, and whether the
\* request succeeded. op "return" is no request: function arg returned key/ok.
Ev(op, key, arg, ok) == [op |-> op, key |-> key, arg |-> arg, ok |-> ok]

St(J, G, L, N, P) == [J |-> J, G |-> G, L |-> L, N |-> N, P |-> P]

NoEdits == [labels |-> {}, fixVersions |-> <<>>]

NoIssue ==
  [exists |-> FALSE, status |-> "", labels |-> {}, fixVersions |-> <<>>,
   epic |-> "", release |-> "", links |-> {}, ilinks |-> {}, desc |-> 0,
   hits |-> {}]

\* src/main.py:80-87
can_mutate_jira(c) == c.mode # "dry-run" \/ c.fixEvenDry

\* links are added under the condition of the field updates
can_add_pr_links_as_mutate(c) == c.mode # "dry-run" \/ c.fixEvenDry

can_add_pr_links(c) == c.mode # "dry-run"

can_transition_jira(c) == c.mode # "dry-run"

\* key.startswith("DRY-RUN")
IsDryRunKey(key) == key = DryRunKey

\* _pr_slug: the pattern is a raw string holding doubled backslashes, so it
\* asks for a literal backslash after "github" and before "d+"; no pull
\* request URL holds one, and the slug is the empty string.
\* FALSE stands for the empty slug in the tests "pr_slug and ...".
pr_slug_nonempty(p) == FALSE

\* ------------------------------------------------------------ tracker calls
\* A call returns [S |-> state after, ret |-> value]; S = [J, G, L, N, P]:
\* tracker, pull requests, log, next key of the tracker, _JIRA_PREFLIGHT_OK.
\* A function of main.py is one operator, or a chain of operators that each
\* take the result of the step before.
Logged(S, op, key, arg, ok) == [S EXCEPT !.L = Append(@, Ev(op, key, arg, ok))]

Ret(S, ret) == [S |-> S, ret |-> ret]

Exc(S, exc) == [S |-> S, exc |-> exc]

IssueAt(J, key) == IF key \in Keys THEN J[key] ELSE NoIssue

\* GET issue: None (NoIssue) for a failed request and for an absent issue (404)
GetIssueResponse(S, F, key) ==
  IF "get_issue" \in F \/ ~IssueAt(S.J, key).exists THEN NoIssue ELSE S.J[key]

\* src/main.py:437-456. None also for the sentinel key of a run that cannot
\* mutate.
jira_get_issue(S, c, F, key) ==
  IF IsDryRunKey(key) /\ ~can_mutate_jira(c)
  THEN Ret(S, NoIssue)
  ELSE Ret(Logged(S, "get_issue", key, "", GetIssueResponse(S, F, key).exists),
            GetIssueResponse(S, F, key))

\* src/main.py:402-415 on the issue read: ilinks holds the pull requests whose
\* URL a linked issue's summary holds
HasIssueLink(g, p) == Ret(g.S, g.ret.exists /\ p \in g.ret.ilinks)

\* src/main.py:385-400: links holds the pull requests whose URL a remote
\* link's url holds
RemoteLinksRead(S, F, key) == "get_links" \notin F /\ IssueAt(S.J, key).exists

RemoteLinkListed(S, F, key, p) ==
  /\ RemoteLinksRead(S, F, key)
  /\ (p \in S.J[key].links \/ (pr_slug_nonempty(p) /\ p \in S.J[key].links))

\* src/main.py:378-415
jira_issue_has_pr_link(S, c, F, key, p) ==
  IF IsDryRunKey(key) /\ ~can_mutate_jira(c)
  THEN Ret(S, FALSE)
  ELSE IF RemoteLinkListed(S, F, key, p)
       THEN Ret(Logged(S, "get_links", key, "", TRUE), TRUE)
       ELSE HasIssueLink(jira_get_issue(Logged(S, "get_links", key, "",
                                               RemoteLinksRead(S, F, key)),
                                        c, F, key),
                         p)

\* the response to the POST is not looked at
PostRemoteLinkUnchecked(h, F, key, p) ==
  IF h.ret THEN Ret(h.S, FALSE)
  ELSE IF "add_link" \in F \/ ~IssueAt(h.S.J, key).exists
       THEN Ret(Logged(h.S, "add_link", key, "", FALSE), TRUE)
       ELSE Ret([Logged(h.S, "add_link", key, "", TRUE) EXCEPT !.J[key].links = @ \cup {p}],
                TRUE)

\* src/main.py:422-435 after the link check h
PostRemoteLink(h, F, key, p) ==
  IF h.ret THEN Ret(h.S, FALSE)
  ELSE IF "add_link" \in F \/ ~IssueAt(h.S.J, key).exists
       THEN Ret(Logged(h.S, "add_link", key, "", FALSE), FALSE)
       ELSE Ret([Logged(h.S, "add_link", key, "", TRUE) EXCEPT !.J[key].links = @ \cup {p}],
                TRUE)

\* src/main.py:417-435
jira_add_pr_remotelink(S, c, F, key, p) ==
  IF ~can_add_pr_links(c)
  THEN Ret(S, FALSE)
  ELSE PostRemoteLink(jira_issue_has_pr_link(S, c, F, key, p), F, key, p)

\* ------------------------------------------------------------ query builder
\* A title is a sequence of words, the maximal runs of [A-Za-z0-9_-] of the
\* text. WordOK: the word matches [A-Za-z0-9][A-Za-z0-9_-]{2,} (3 characters or
\* more); LowerWord: str.lower(); Strong: a hyphen or a digit in it.
Words == {"Bump", "Update", "to", "v3", "lodash", "react", "log4j-core", "junit5"}

WordOK(w) == w \notin {"to", "v3"}

LowerWord(w) ==
  CASE w = "Bump" -> "bump"
    [] w = "Update" -> "update"
    [] OTHER -> w

StopWords ==
  {"update", "action", "actions", "bump", "dependency", "dependencies", "to", "from"}

Strong(w) == w \in {"v3", "log4j-core", "junit5"}

RECURSIVE AppendNew(_, _, _)
\* the loops of src/main.py:276-283: append the words of ws not yet selected,
\* while fewer than limit are selected (limit < 0: no limit)
AppendNew(selected, ws, limit) ==
  IF ws = <<>> \/ (limit >= 0 /\ Len(selected) >= limit)
  THEN selected
  ELSE AppendNew(IF \A i \in 1..Len(selected) : selected[i] # Head(ws)
                 THEN Append(selected, Head(ws))
                 ELSE selected,
                 Tail(ws), limit)

FirstN(s, n) == SubSeq(s, 1, IF Len(s) < n THEN Len(s) ELSE n)

\* src/main.py:273: the tokens that are no stop words
Keywords(text) ==
  SelectSeq(SelectSeq(text, WordOK), LAMBDA t : LowerWord(t) \notin StopWords)

\* the words are taken in the order of the text
_build_summary_token_jql_in_order(text) == FirstN(AppendNew(<<>>, Keywords(text), 2), 2)

\* src/main.py:270-291: the words of the token query; <<>> is None
_build_summary_token_jql(text) ==
  FirstN(AppendNew(AppendNew(<<>>, SelectSeq(Keywords(text), Strong), -1),
                   Keywords(text), 2),
         2)

\* ------------------------------------------------------------- correlation
\* Tracker.search: the issues of the project that are not Withdrawn and that
\* the tracker's text index matches to the query, in key order, maxResults of
\* them. hits holds <<p, kind>> when the index matches the issue to the query
\* of that kind built from pull request p.
KeySeq == [k \in 1..MaxKey |-> k]

SearchResults(J, p, kind) ==
  FirstN(SelectSeq(KeySeq, LAMBDA k : /\ J[k].exists
                                      /\ Lower(J[k].status) # "withdrawn"
                                      /\ <<p, kind>> \in J[k].hits),
         MaxResults)

ExactKinds == <<"summary", "title">>

SearchFails(F, kind) ==
  \/ "search_summary" \in F /\ kind = "summary"
  \/ "search_title" \in F /\ kind = "title"
  \/ "search_token" \in F /\ kind = "token"

\* src/main.py:321-326: the loop over the issues only assigns issue_key, so the
\* variable is left at the last issue, or as it was when there is none
LastKey(issues, issue_key) ==
  IF issues = <<>> THEN issue_key ELSE issues[Len(issues)]

\* A return of issue_key, src/main.py:331, 335, 340, 363, 367, 372: the log
\* notes the phase in which the ticket was confirmed.
Confirm(S, key, in_phase) == Ret(Logged(S, "confirm", key, in_phase, TRUE), key)

RECURSIVE ExactPhase(_, _, _, _, _, _)
\* src/main.py:336-340 after the second attempt a2 to add the link
ExactAfterRetry(a2, c, F, p, i, ik) ==
  IF a2.ret THEN Confirm(a2.S, ik, "exact") ELSE ExactPhase(a2.S, c, F, p, i + 1, ik)

\* src/main.py:332-340 after the link check h
ExactAfterCheck(h, c, F, p, i, ik) ==
  IF h.ret THEN Confirm(h.S, ik, "exact")
  ELSE ExactAfterRetry(jira_add_pr_remotelink(h.S, c, F, ik, p), c, F, p, i, ik)

\* src/main.py:328-340 after the first attempt a1 to add the link
ExactAfterAdd(a1, c, F, p, i, ik) ==
  IF a1.ret THEN Confirm(a1.S, ik, "exact")
  ELSE ExactAfterCheck(jira_issue_has_pr_link(a1.S, c, F, ik, p), c, F, p, i, ik)

\* src/main.py:327-340 with issue_key at ik; NoKey stands for unbound: reading
\* it raises, and the except clause of the candidate swallows that
ExactConfirm(S, c, F, p, i, ik) ==
  IF ik = NoKey \/ ~(c.fixLinks /\ can_add_pr_links(c))
  THEN ExactPhase(S, c, F, p, i + 1, ik)
  ELSE ExactAfterAdd(jira_add_pr_remotelink(S, c, F, ik, p), c, F, p, i, ik)

\* src/main.py:306-343 from candidate i on. issue_key is the local variable of
\* that name: it keeps its value from one candidate to the next.
ExactPhase(S, c, F, p, i, issue_key) ==
  IF i > Len(ExactKinds)
  THEN Ret(S, NoKey)
  ELSE IF SearchFails(F, ExactKinds[i])
       THEN ExactPhase(Logged(S, "search", NoKey, ExactKinds[i], FALSE), c, F, p, i + 1,
                       issue_key)
       ELSE ExactConfirm(Logged(S, "search", NoKey, ExactKinds[i], TRUE), c, F, p, i,
                         LastKey(SearchResults(S.J, p, ExactKinds[i]), issue_key))

RECURSIVE TokenLoop(_, _, _, _, _, _)
\* the loop goes on to the next issue although the link was attached
TokenAfterAddOn(a, c, F, p, issues, j) == TokenLoop(a.S, c, F, p, issues, j + 1)

\* src/main.py:368-372 after the attempt a to add the link
TokenAfterAdd(a, c, F, p, issues, j) ==
  IF a.ret THEN Confirm(a.S, issues[j], "token") ELSE TokenLoop(a.S, c, F, p, issues, j + 1)

\* src/main.py:364-372 after the link check h
TokenAfterCheck(h, c, F, p, issues, j) ==
  IF h.ret THEN Confirm(h.S, issues[j], "token")
  ELSE IF ~c.fixLinks THEN TokenLoop(h.S, c, F, p, issues, j + 1)
  ELSE TokenAfterAdd(jira_add_pr_remotelink(h.S, c, F, issues[j], p), c, F, p,
                     issues, j)

\* src/main.py:353-372 from issue j on
TokenLoop(S, c, F, p, issues, j) ==
  IF j > Len(issues)
  THEN Ret(S, NoKey)
  ELSE IF S.J[issues[j]].desc = p
       THEN Confirm(IF c.fixLinks
                    THEN jira_add_pr_remotelink(S, c, F, issues[j], p).S
                    ELSE S,
                    issues[j], "token")
       ELSE TokenAfterCheck(jira_issue_has_pr_link(S, c, F, issues[j], p), c, F, p,
                            issues, j)

\* src/main.py:344-376
TokenPhase(S, c, F, p) ==
  IF _build_summary_token_jql(S.G[p].words) = <<>>
  THEN Ret(S, NoKey)
  ELSE IF SearchFails(F, "token")
       THEN Ret(Logged(S, "search", NoKey, "token", FALSE), NoKey)
       ELSE TokenLoop(Logged(S, "search", NoKey, "token", TRUE), c, F, p,
                      SearchResults(S.J, p, "token"), 1)

\* the token query runs whatever the exact-phrase phase returned
AfterExactPhaseAlways(e, c, F, p) == TokenPhase(e.S, c, F, p)

\* src/main.py:344 after the exact-phrase phase e
AfterExactPhase(e, c, F, p) ==
  IF e.ret # NoKey THEN e ELSE TokenPhase(e.S, c, F, p)

\* src/main.py:293-376
jira_find_existing_issue(S, c, F, p) ==
  AfterExactPhase(ExactPhase(S, c, F, p, 1, NoKey), c, F, p)

\* ----------------------------------------------------------- status reads
\* an issue that cannot be read counts as withdrawn
IsWithdrawnOrUnread(g) == Ret(g.S, ~g.ret.exists \/ Lower(g.ret.status) = "withdrawn")

\* src/main.py:462-465 on the issue read
IsWithdrawn(g) == Ret(g.S, g.ret.exists /\ Lower(g.ret.status) = "withdrawn")

\* src/main.py:458-465
jira_is_withdrawn(S, c, F, key) ==
  IF IsDryRunKey(key) /\ ~can_mutate_jira(c)
  THEN Ret(S, FALSE)
  ELSE IsWithdrawn(jira_get_issue(S, c, F, key))

\* src/main.py:471-474 on the issue read; "" when it cannot be read
StatusName(g) == Ret(g.S, IF g.ret.exists THEN g.ret.status ELSE "")

\* src/main.py:467-474
jira_get_status_name(S, c, F, key) ==
  IF IsDryRunKey(key) /\ ~can_mutate_jira(c)
  THEN Ret(S, "")
  ELSE StatusName(jira_get_issue(S, c, F, key))

\* src/main.py:478 on the status read
IsSkipStatus(st) == Ret(st.S, st.ret # "" /\ Lower(st.ret) \in JIRA_SKIP_STATUSES)

\* src/main.py:476-478
jira_has_skip_status(S, c, F, key) ==
  IsSkipStatus(jira_get_status_name(S, c, F, key))

\* ----------------------------------------------------------- reconciliation
\* src/main.py:568
CurrentFixVersions(fields) == SelectSeq(fields.fixVersions, LAMBDA n : n # "")

\* the epic link is written whatever the ticket holds
UpdateFieldsAlways(fields, desired_labels, fix_version, release_approach_field, release_approach_value) ==
  {"epic"}

\* The names of the fields src/main.py:561-580 puts in updates, from a
\* snapshot of the issue's fields. release_approach_value "" is None.
UpdateFields(fields, desired_labels, fix_version, release_approach_field, release_approach_value) ==
  (IF desired_labels # {} /\ ~(desired_labels \subseteq fields.labels)
   THEN {"labels"} ELSE {})
  \cup (IF /\ fix_version # ""
           /\ \A i \in 1..Len(CurrentFixVersions(fields)) :
                CurrentFixVersions(fields)[i] # fix_version
        THEN {"fixVersions"} ELSE {})
  \cup (IF JIRA_EPIC_KEY # "" /\ fields.epic # JIRA_EPIC_KEY THEN {"epic"} ELSE {})
  \cup (IF /\ release_approach_field
           /\ release_approach_value # ""
           /\ fields.release # release_approach_value
        THEN {"release"} ELSE {})

\* the desired values are written in place of those of the ticket
EnsureUpdatesReplaced(fields, desired_labels, fix_version, release_approach_field, release_approach_value) ==
  [fields |-> UpdateFields(fields, desired_labels, fix_version,
                           release_approach_field, release_approach_value),
   labels |-> desired_labels,
   fixVersions |-> <<fix_version>>,
   epic |-> JIRA_EPIC_KEY,
   release |-> release_approach_value]

\* The updates of src/main.py:561-580: fields names the fields to write, the
\* other entries are the values written for them.
EnsureUpdates(fields, desired_labels, fix_version, release_approach_field, release_approach_value) ==
  [fields |-> UpdateFields(fields, desired_labels, fix_version,
                           release_approach_field, release_approach_value),
   labels |-> fields.labels \cup desired_labels,
   fixVersions |-> Append(CurrentFixVersions(fields), fix_version),
   epic |-> JIRA_EPIC_KEY,
   release |-> release_approach_value]

\* What the tracker does with PUT issue {"fields": updates}: every field named
\* is replaced by the value sent.
ApplyUpdates(issue, u) ==
  [issue EXCEPT
     !.labels = IF "labels" \in u.fields THEN u.labels ELSE @,
     !.fixVersions = IF "fixVersions" \in u.fields THEN u.fixVersions ELSE @,
     !.epic = IF "epic" \in u.fields THEN u.epic ELSE @,
     !.release = IF "release" \in u.fields THEN u.release ELSE @]

\* src/main.py:480-494; exc: the call raised
jira_update_issue(S, c, F, key, u) ==
  IF c.mode = "dry-run" /\ ~c.fixEvenDry
  THEN Exc(S, FALSE)
  ELSE IF "update" \in F \/ ~IssueAt(S.J, key).exists
       THEN Exc(Logged(S, "update", key, "", FALSE), TRUE)
       ELSE Exc([Logged(S, "update", key, "", TRUE) EXCEPT !.J[key] = ApplyUpdates(@, u)],
                FALSE)

\* src/main.py:582-586
ApplyDiff(S, c, F, key, u) ==
  IF u.fields = {} THEN Exc(S, FALSE) ELSE jira_update_issue(S, c, F, key, u)

\* src/main.py:557-586 on the issue read
EnsureFromSnapshot(g, c, F, key, desired_labels, fix_version, release_approach_field, release_approach_value) ==
  IF ~g.ret.exists THEN Exc(g.S, FALSE)
  ELSE ApplyDiff(g.S, c, F, key,
                 EnsureUpdates(g.ret, desired_labels, fix_version,
                               release_approach_field, release_approach_value))

\* src/main.py:549-586
jira_ensure_ticket_fields(S, c, F, key, desired_labels, fix_version, release_approach_field, release_approach_value) ==
  EnsureFromSnapshot(jira_get_issue(S, c, F, key), c, F, key, desired_labels,
                     fix_version, release_approach_field, release_approach_value)

\* --------------------------------------------------------------- workflow
\* The names of the transitions the tracker offers from a status; firing the
\* transition named n leaves the issue in status n.
Workflow(status) ==
  CASE status = "Open" -> <<"Withdrawn", "In Progress">>
    [] status = "In Progress" -> <<"Resume QA">>
    [] OTHER -> <<>>

\* the matches of src/main.py:520-523 among the transitions offered
MatchingTransitions(transitions, status_name) ==
  SelectSeq(transitions, LAMBDA t : Lower(t) = Lower(status_name))

\* src/main.py:528-533 with the transition found
FireTransition(S, F, key, tid) ==
  IF "fire_transition" \in F
  THEN Logged(S, "fire_transition", key, tid, FALSE)
  ELSE [Logged(S, "fire_transition", key, tid, TRUE) EXCEPT !.J[key].status = tid]

\* src/main.py:519-533 with the transitions listed
PickTransition(S, F, key, matching) ==
  IF matching = <<>> THEN S ELSE FireTransition(S, F, key, matching[1])

\* src/main.py:507-533
ListAndFire(S, F, key, status_name) ==
  IF "list_transitions" \in F \/ ~IssueAt(S.J, key).exists
  THEN Logged(S, "list_transitions", key, "", FALSE)
  ELSE PickTransition(Logged(S, "list_transitions", key, "", TRUE), F, key,
                      MatchingTransitions(Workflow(S.J[key].status), status_name))

\* the transitions are listed whatever the status read
TransitionFromAlways(st, c, F, key, status_name) ==
  IF ~can_transition_jira(c) THEN st.S
  ELSE ListAndFire(st.S, F, key, status_name)

\* src/main.py:502-533 after the status read
TransitionFrom(st, c, F, key, status_name) ==
  IF st.ret # "" /\ Lower(st.ret) = Lower(status_name) THEN st.S
  ELSE IF ~can_transition_jira(c) THEN st.S
  ELSE ListAndFire(st.S, F, key, status_name)

\* src/main.py:496-533
jira_transition_issue(S, c, F, key, status_name) ==
  IF status_name = "" \/ IsDryRunKey(key)
  THEN S
  ELSE TransitionFrom(jira_get_status_name(S, c, F, key), c, F, key, status_name)

RECURSIVE TransitionEach(_, _, _, _, _)
\* src/main.py:546-547
TransitionEach(S, c, F, key, statuses) ==
  IF statuses = <<>> THEN S
  ELSE TransitionEach(jira_transition_issue(S, c, F, key, Head(statuses)),
                      c, F, key, Tail(statuses))

\* the hops are taken whatever the status read
PathFromAlways(st, c, F, key, statuses) ==
  IF ~can_transition_jira(c) THEN st.S
  ELSE TransitionEach(st.S, c, F, key, statuses)

\* src/main.py:541-547 after the status read
PathFrom(st, c, F, key, statuses) ==
  IF st.ret # "" /\ Lower(st.ret) = Lower(statuses[Len(statuses)]) THEN st.S
  ELSE IF ~can_transition_jira(c) THEN st.S
  ELSE TransitionEach(st.S, c, F, key, statuses)

\* src/main.py:535-547
jira_transition_issue_path(S, c, F, key, statuses) ==
  IF statuses = <<>> \/ IsDryRunKey(key)
  THEN S
  ELSE PathFrom(jira_get_status_name(S, c, F, key), c, F, key, statuses)

\* ----------------------------------------------------------------- creation
\* The issue POST /issue makes of the payload of src/main.py:213-227 for pull
\* request p. Its description holds the pull request URL (src/main.py:761),
\* and the tracker's index matches its summary to the queries built from p.
NewIssue(c, p) ==
  [exists |-> TRUE, status |-> "Open", labels |-> c.jiraLabels,
   fixVersions |-> <<JIRA_FIX_VERSION>>, epic |-> JIRA_EPIC_KEY,
   release |-> IF c.raField THEN c.raValue ELSE "",
   links |-> {}, ilinks |-> {}, desc |-> p,
   hits |-> {<<p, "summary">>, <<p, "title">>, <<p, "token">>}]

\* src/main.py:204-245; ret: the key of the response, exc: the call raised
jira_create_issue(S, c, F, p) ==
  IF c.mode = "dry-run"
  THEN [S |-> S, ret |-> DryRunKey, exc |-> FALSE]
  ELSE IF "create" \in F
       THEN [S |-> Logged(S, "create", NoKey, "", FALSE), ret |-> NoKey, exc |-> TRUE]
       ELSE [S |-> [Logged(S, "create", S.N, "", TRUE)
                      EXCEPT !.J[S.N] = NewIssue(c, p), !.N = @ + 1],
             ret |-> S.N, exc |-> FALSE]

\* the project is validated before the project check has answered
PreflightProjectEarly(S, F, project) ==
  IF "project" \in F
  THEN Exc([Logged(S, "project", NoKey, "", FALSE) EXCEPT !.P = @ \cup {project}], TRUE)
  ELSE Exc([Logged(S, "project", NoKey, "", TRUE) EXCEPT !.P = @ \cup {project}], FALSE)

\* src/main.py:259-261
PreflightProject(S, F, project) ==
  IF "project" \in F
  THEN Exc(Logged(S, "project", NoKey, "", FALSE), TRUE)
  ELSE Exc([Logged(S, "project", NoKey, "", TRUE) EXCEPT !.P = @ \cup {project}], FALSE)

\* src/main.py:249-261
jira_preflight(S, c, F, project) ==
  IF c.mode = "dry-run" \/ project \in S.P
  THEN Exc(S, FALSE)
  ELSE IF "myself" \in F
       THEN Exc(Logged(S, "myself", NoKey, "", FALSE), TRUE)
       ELSE PreflightProject(Logged(S, "myself", NoKey, "", TRUE), F, project)

\* -------------------------------------------------------------- source host
\* A comment is the ticket key its body mentions (NoKey: none). The pattern of
\* src/main.py:592 knows the keys of the projects CCD and HMC only.
KeyPatternProjects == {"CCD", "HMC"}

\* src/main.py:593-596: the key of the first comment that mentions one
FirstKey(comments) ==
  IF SelectSeq(comments, LAMBDA k : k # NoKey) = <<>>
  THEN NoKey
  ELSE SelectSeq(comments, LAMBDA k : k # NoKey)[1]

\* src/main.py:588-599
pr_has_ticket_in_comments(S, c, F, p) ==
  IF "list_comments" \in F \/ c.project \notin KeyPatternProjects
  THEN Ret(Logged(S, "list_comments", NoKey, "", "list_comments" \notin F), NoKey)
  ELSE Ret(Logged(S, "list_comments", NoKey, "", TRUE), FirstKey(S.G[p].comments))

\* src/main.py:601-613
pr_comment_has_ticket(S, c, F, p, key) ==
  IF key = NoKey THEN Ret(S, FALSE)
  ELSE IF "list_comments" \in F THEN Ret(Logged(S, "list_comments", NoKey, "", FALSE), FALSE)
  ELSE Ret(Logged(S, "list_comments", NoKey, "", TRUE),
           \E i \in 1..Len(S.G[p].comments) : S.G[p].comments[i] = key)

\* pr.create_issue_comment with a body that mentions key
CreateComment(S, F, p, key) ==
  IF "add_comment" \in F
  THEN Logged(S, "add_comment", key, "", FALSE)
  ELSE [Logged(S, "add_comment", key, "", TRUE) EXCEPT !.G[p].comments = Append(@, key)]

\* src/main.py:620-631 after the look for the key in the comments
CommentIfMissing(h, c, F, p, key) ==
  IF h.ret THEN h.S
  ELSE IF c.mode = "dry-run" THEN h.S
  ELSE CreateComment(h.S, F, p, key)

\* src/main.py:615-631
maybe_comment_existing_jira_if_missing(S, c, F, p, key) ==
  IF ~c.commentExisting \/ key = NoKey
  THEN S
  ELSE CommentIfMissing(pr_comment_has_ticket(S, c, F, p, key), c, F, p, key)

\* src/main.py:633-648 on a title that is a key prefix (NoKey: none) and the
\* rest: the prefix becomes the key
_prefixed_pr_title(titleKey, key) == IF key = NoKey THEN titleKey ELSE key

\* src/main.py:668-683: pr.edit, and pr.as_issue().edit when that fails
EditTitle(S, F, p, key, desired) ==
  IF "edit_title" \notin F
  THEN [Logged(S, "edit_title", key, "", TRUE) EXCEPT !.G[p].titleKey = desired]
  ELSE IF "edit_title_issue" \notin F
       THEN [Logged(Logged(S, "edit_title", key, "", FALSE), "edit_title_issue", key, "", TRUE)
               EXCEPT !.G[p].titleKey = desired]
       ELSE Logged(Logged(S, "edit_title", key, "", FALSE), "edit_title_issue", key,
                   "", FALSE)

\* src/main.py:650-683
maybe_update_pr_title_with_jira(S, c, F, p, key) ==
  IF ~c.updTitle \/ key = NoKey THEN S
  ELSE IF _prefixed_pr_title(S.G[p].titleKey, key) = S.G[p].titleKey THEN S
  ELSE IF c.mode = "dry-run" THEN S
  ELSE EditTitle(S, F, p, key, _prefixed_pr_title(S.G[p].titleKey, key))

\* -------------------------------------------------------------- classifier
\* str.lower() on the label names of the model
LowerLabel(l) ==
  CASE l = "Renovate Dependencies" -> "renovate dependencies"
    [] l = "Security" -> "security"
    [] l = "SECURITY" -> "security"
    [] l = "CCD-BAU" -> "ccd-bau"
    [] l = "RENOVATE-PR" -> "renovate-pr"
    [] l = "GENERATED-BY-Agent" -> "generated-by-agent"
    [] OTHER -> l

LowerLabels(ls) == {LowerLabel(l) : l \in ls}

\* A text is a sequence of phrases, joined by blanks into the string the code
\* reads. The phrases of the model, none of which matches a pattern of
\* src/decision.py across its border with a neighbour:
Phrases ==
  {"lodash", "log4j", "majority", "Breaking", "CVE-2024-12345", "cve-2024-12345",
   "CVE-2024-123", "to v3", "to v1.2", "to 1", "2.9.3 -> 3.2.3", "1.2.3 -> 1.2.4"}

\* str.lower() on the phrases of the model
LowerPhrase(t) ==
  CASE t = "Breaking" -> "breaking"
    [] t = "CVE-2024-12345" -> "cve-2024-12345"
    [] t = "CVE-2024-123" -> "cve-2024-123"
    [] OTHER -> t

\* the identifier is matched as it is written
mentions_cve_cased(text) == \E i \in DOMAIN text : text[i] = "CVE-2024-12345"

\* src/decision.py:6-7: the pattern CVE-dddd-dddd+ between word borders, case
\* ignored, matches in a phrase of the text
mentions_cve(text) == \E i \in DOMAIN text : LowerPhrase(text[i]) = "cve-2024-12345"

\* src/decision.py:11: a word major, breaking or migration
KeywordIn(text) ==
  \E i \in DOMAIN text : LowerPhrase(text[i]) \in {"major", "breaking", "migration"}

\* the number group 1 of the pattern of src/decision.py:16 captures in a
\* phrase, -1 when the pattern does not match in it
ToVersion(t) ==
  CASE t = "to v3" -> 3
    [] t = "to v1.2" -> 1
    [] t = "to 1" -> 1
    [] OTHER -> -1

\* the numbers groups 1 and 2 of the pattern of src/decision.py:20 capture in a
\* phrase, <<>> when the pattern does not match in it
RangeEnds(t) ==
  CASE t = "2.9.3 -> 3.2.3" -> <<2, 3>>
    [] t = "1.2.3 -> 1.2.4" -> <<1, 1>>
    [] OTHER -> <<>>

\* re.search: the first match in the text; the phrases that match, in order
ToMatches(text) == SelectSeq(text, LAMBDA t : ToVersion(t) # -1)

RangeMatches(text) == SelectSeq(text, LAMBDA t : RangeEnds(t) # <<>>)

\* src/decision.py:16-18, on the title
ToRule(title) == ToMatches(title) # <<>> /\ ToVersion(ToMatches(title)[1]) > 1

\* every range of the text is looked at
RangeRuleAny(text) ==
  \E i \in DOMAIN text :
    RangeEnds(text[i]) # <<>> /\ RangeEnds(text[i])[1] # RangeEnds(text[i])[2]

\* src/decision.py:20-22, on title and body
RangeRule(text) ==
  /\ RangeMatches(text) # <<>>
  /\ RangeEnds(RangeMatches(text)[1])[1] # RangeEnds(RangeMatches(text)[1])[2]

\* the 'to N' pattern is searched in title and body
is_major_bump_anywhere(title, body) ==
  KeywordIn(title \o body) \/ ToRule(title \o body) \/ RangeRule(title \o body)

\* src/decision.py:9-23; the pattern of line 13 matches only where the one of
\* line 11 does
is_major_bump(title, body) ==
  KeywordIn(title \o body) \/ ToRule(title) \/ RangeRule(title \o body)

DEFAULT_CRITICAL ==
  {"openssl", "spring-boot", "spring-security", "log4j", "jsonwebtoken",
   "mysql-connector", "postgresql", "hibernate"}

\* src/decision.py:25-32: a name of deps is part of the text
touches_critical_dependency(text, critical_deps) ==
  \E i \in DOMAIN text : LowerPhrase(text[i]) \in critical_deps \cup DEFAULT_CRITICAL

\* the triggers src/decision.py:39-45 reads from title and body
Triggers(title, body, critical_deps) ==
  [cve |-> mentions_cve(title) \/ mentions_cve(body),
   major |-> is_major_bump(title, body),
   critical |-> touches_critical_dependency(title \o body, critical_deps)]

\* src/decision.py:34-48 on the triggers of the pull request's text: cve
\* (mentions_cve of title or body), major (is_major_bump), critical
\* (touches_critical_dependency), and on its labels.
needs_jira(pr, labels, create_cfg) ==
  IF (pr.cve \/ "security" \in LowerLabels(labels)) /\ create_cfg.security
  THEN "security"
  ELSE IF pr.major /\ create_cfg.major THEN "major"
  ELSE IF pr.critical /\ create_cfg.critical THEN "critical-dep"
  ELSE "none"

\* ------------------------------------------------------------- process_pr
\* out: "created" (process_pr returns True), "error" (it raises); any other
\* value names the gate at which it returned False.
Out(S, out) == [S |-> S, out |-> out]

\* the log notes what a function called by process_pr returned
Returned(S, fn, key, ok) == Logged(S, "return", key, fn, ok)

\* src/main.py:729-734 and 752-757
TitleAndComment(S, c, F, p, existing) ==
  Out(IF c.ghComment
      THEN maybe_comment_existing_jira_if_missing(
             IF c.updTitleExisting
             THEN maybe_update_pr_title_with_jira(S, c, F, p, existing)
             ELSE S,
             c, F, p, existing)
      ELSE IF c.updTitleExisting
           THEN maybe_update_pr_title_with_jira(S, c, F, p, existing)
           ELSE S,
      "tracked")

\* src/main.py:722-734 and 745-757 after the reconciliation en
AfterEnsure(en, c, F, p, existing) ==
  IF en.exc THEN Out(en.S, "error") ELSE TitleAndComment(en.S, c, F, p, existing)

\* src/main.py:716-734 and 739-757 after the skip-status check sk
AfterSkipCheck(sk, c, F, p, existing) ==
  IF sk.ret
  THEN Out(Returned(sk.S, "jira_has_skip_status", existing, TRUE), "skip_status")
  ELSE IF c.fixLabels
       THEN AfterEnsure(jira_ensure_ticket_fields(sk.S, c, F, existing, c.jiraLabels,
                                                  JIRA_FIX_VERSION, c.raField, c.raValue),
                        c, F, p, existing)
       ELSE TitleAndComment(sk.S, c, F, p, existing)

\* src/main.py:715-734 and 738-757: the pull request has the ticket existing
ExistingTicketSteps(S, c, F, p, existing) ==
  AfterSkipCheck(jira_has_skip_status(S, c, F, existing), c, F, p, existing)

\* pr.add_to_labels(*labels_to_add), src/main.py:788-792
AddToLabels(S, c, F, p) ==
  IF "add_labels" \in F
  THEN Logged(S, "add_labels", NoKey, "", FALSE)
  ELSE [Logged(S, "add_labels", NoKey, "", TRUE) EXCEPT !.G[p].labels = @ \cup c.jiraLabels]

\* src/main.py:788-794
LabelPR(S, c, F, p) ==
  Out(IF c.mode # "dry-run" /\ c.addLabels THEN AddToLabels(S, c, F, p) ELSE S,
      "created")

\* src/main.py:781-794
AnnounceCreated(S, c, F, p, issue_key) ==
  LabelPR(IF c.mode # "dry-run" /\ c.ghComment
          THEN CreateComment(S, F, p, issue_key)
          ELSE S,
          c, F, p)

\* src/main.py:777-794
AdvanceCreated(S, c, F, p, issue_key) ==
  AnnounceCreated(IF c.targetPath # <<>>
                  THEN jira_transition_issue_path(S, c, F, issue_key, c.targetPath)
                  ELSE IF c.targetStatus # ""
                       THEN jira_transition_issue(S, c, F, issue_key, c.targetStatus)
                       ELSE S,
                  c, F, p, issue_key)

\* src/main.py:774-794
LinkAndTitle(S, c, F, p, issue_key) ==
  AdvanceCreated(maybe_update_pr_title_with_jira(
                   IF c.createLinks /\ can_add_pr_links(c)
                   THEN jira_add_pr_remotelink(S, c, F, issue_key, p).S
                   ELSE S,
                   c, F, p, issue_key),
                 c, F, p, issue_key)

\* the steps after the creation are taken although it raised
AfterCreateOn(cr, c, F, p) == LinkAndTitle(cr.S, c, F, p, cr.ret)

\* src/main.py:773-794 after the create call cr
AfterCreate(cr, c, F, p) ==
  IF cr.exc THEN Out(cr.S, "error") ELSE LinkAndTitle(cr.S, c, F, p, cr.ret)

\* src/main.py:759-794 after the preflight pf
AfterPreflight(pf, c, F, p) ==
  IF pf.exc THEN Out(pf.S, "error")
  ELSE AfterCreate(jira_create_issue(pf.S, c, F, p), c, F, p)

\* src/main.py:758-794
CreateSteps(S, c, F, p) == AfterPreflight(jira_preflight(S, c, F, c.project), c, F, p)

\* src/main.py:738-794 after the search fd
AfterSearch(fd, c, F, p) ==
  IF fd.ret # NoKey
  THEN ExistingTicketSteps(Returned(fd.S, "jira_find_existing_issue", fd.ret, TRUE),
                           c, F, p, fd.ret)
  ELSE CreateSteps(Returned(fd.S, "jira_find_existing_issue", NoKey, FALSE), c, F, p)

\* src/main.py:715-794 with existing as the comments gave it
Correlate(S, c, F, p, existing) ==
  IF existing # NoKey
  THEN ExistingTicketSteps(S, c, F, p, existing)
  ELSE AfterSearch(jira_find_existing_issue(S, c, F, p), c, F, p)

\* the key found in the comments is kept whatever its status
AfterWithdrawnCheckKept(wd, c, F, p, existing) ==
  Correlate(Returned(wd.S, "jira_is_withdrawn", existing, wd.ret), c, F, p, existing)

\* src/main.py:712-794 after the withdrawn check wd of the key in the comments
AfterWithdrawnCheck(wd, c, F, p, existing) ==
  Correlate(Returned(wd.S, "jira_is_withdrawn", existing, wd.ret), c, F, p,
            IF wd.ret THEN NoKey ELSE existing)

\* src/main.py:711-794 after the look cm for a key in the comments
AfterComments(cm, c, F, p) ==
  IF cm.ret # NoKey
  THEN AfterWithdrawnCheck(
         jira_is_withdrawn(Returned(cm.S, "pr_has_ticket_in_comments", cm.ret, TRUE),
                           c, F, cm.ret),
         c, F, p, cm.ret)
  ELSE Correlate(Returned(cm.S, "pr_has_ticket_in_comments", NoKey, FALSE), c, F, p,
                 NoKey)

\* the comments are looked at before the pull request is classified
process_pr_unclassified(S, c, F, p) ==
  IF ~c.enabled THEN Out(S, "disabled")
  ELSE IF S.G[p].state # "open" THEN Out(S, "not_open")
  ELSE IF "get_labels" \in F THEN Out(S, "error")
  ELSE IF /\ LowerLabels(c.requireLabels) # {}
          /\ LowerLabels(S.G[p].labels) \cap LowerLabels(c.requireLabels) = {}
       THEN Out(S, "missing_label")
  ELSE AfterComments(pr_has_ticket_in_comments(S, c, F, p), c, F, p)

\* src/main.py:685-796
process_pr(S, c, F, p) ==
  IF ~c.enabled THEN Out(S, "disabled")
  ELSE IF S.G[p].state # "open" THEN Out(S, "not_open")
  ELSE IF "get_labels" \in F THEN Out(S, "error")
  ELSE IF /\ LowerLabels(c.requireLabels) # {}
          /\ LowerLabels(S.G[p].labels) \cap LowerLabels(c.requireLabels) = {}
       THEN Out(S, "missing_label")
  ELSE IF needs_jira(S.G[p], S.G[p].labels, c.create_jira_for) = "none"
       THEN Out(S, "no_rule")
  ELSE AfterComments(pr_has_ticket_in_comments(S, c, F, p), c, F, p)

\* ---------------------------------------------------------------- scenarios
\* A scenario is the base scenario (a mutating run with the default settings of
\* src/main.py:47-64 and 106-119 over pull requests that want a ticket, on an
\* empty tracker) changed in at most MaxDev of these ways. The pr_ and issue_
\* deviations are about pull request 1 and the issue with key 1.
Deviations ==
  {"dry_run", "fix_labels", "fix_even_dry", "fix_links", "create_links",
   "no_title_update", "title_existing", "comment_existing", "target_status",
   "target_path", "max_new_1", "max_new_2", "disabled", "no_major",
   "no_require", "other_project", "release_field", "no_comment", "no_add_labels",
   "pr_commented", "pr_no_tokens", "pr_cve", "pr_no_trigger", "pr_closed",
   "pr_unlabelled",
   "issue_open", "issue_skip", "issue_withdrawn", "issue_desc", "issue_link",
   "issue_manual"}

Scenarios == SubsetsUpTo(Deviations, MaxDev)

ConfOf(D) ==
  [mode |-> IF "dry_run" \in D THEN "dry-run" ELSE "run",
   fixLabels |-> "fix_labels" \in D,
   fixEvenDry |-> "fix_even_dry" \in D,
   fixLinks |-> "fix_links" \in D,
   createLinks |-> "create_links" \in D,
   updTitle |-> "no_title_update" \notin D,
   updTitleExisting |-> "title_existing" \in D,
   commentExisting |-> "comment_existing" \in D,
   targetStatus |-> IF "target_status" \in D THEN "In Progress" ELSE "",
   targetPath |-> IF "target_path" \in D THEN <<"In Progress", "Resume QA">> ELSE <<>>,
   maxNew |-> IF "max_new_1" \in D THEN 1 ELSE IF "max_new_2" \in D THEN 2 ELSE 0,
   enabled |-> "disabled" \notin D,
   create_jira_for |-> [security |-> TRUE, major |-> "no_major" \notin D,
                        critical |-> FALSE],
   requireLabels |-> IF "no_require" \in D THEN {} ELSE {"Renovate Dependencies"},
   project |-> IF "other_project" \in D THEN "ABC" ELSE "CCD",
   jiraLabels |-> {"CCD-BAU", "RENOVATE-PR", "GENERATED-BY-Agent"},
   raField |-> "release_field" \in D,
   raValue |-> "Tier 1: CI/CD",
   ghComment |-> "no_comment" \notin D,
   addLabels |-> "no_add_labels" \notin D]

BasePR ==
  [state |-> "open", labels |-> {"Renovate Dependencies"}, cve |-> FALSE,
   major |-> TRUE, critical |-> FALSE, titleKey |-> NoKey,
   words |-> <<"Bump", "lodash", "to", "v3">>, comments |-> <<>>]

PR1Of(D) ==
  [state |-> IF "pr_closed" \in D THEN "closed" ELSE "open",
   labels |-> IF "pr_unlabelled" \in D THEN {} ELSE {"Renovate Dependencies"},
   cve |-> "pr_cve" \in D,
   major |-> "pr_no_trigger" \notin D,
   critical |-> FALSE,
   titleKey |-> NoKey,
   words |-> IF "pr_no_tokens" \in D THEN <<"Bump", "to", "v3">>
             ELSE <<"Bump", "lodash", "to", "v3">>,
   comments |-> IF "pr_commented" \in D THEN <<NoKey, 1>> ELSE <<>>]

IssueDevs ==
  {"issue_open", "issue_skip", "issue_withdrawn", "issue_desc", "issue_link",
   "issue_manual"}

Issue1Of(D) ==
  IF D \cap IssueDevs = {} THEN NoIssue
  ELSE [exists |-> TRUE,
        status |-> IF "issue_skip" \in D THEN "Resume QA"
                   ELSE IF "issue_withdrawn" \in D THEN "Withdrawn" ELSE "Open",
        labels |-> IF "issue_manual" \in D THEN {"manual"} ELSE {},
        fixVersions |-> IF "issue_manual" \in D THEN <<"1.0">> ELSE <<>>,
        epic |-> "", release |-> "",
        links |-> IF "issue_link" \in D THEN {1} ELSE {},
        ilinks |-> {},
        desc |-> IF "issue_desc" \in D THEN 1 ELSE 0,
        hits |-> {<<1, "summary">>, <<1, "title">>, <<1, "token">>}]

Started(D) ==
    /\ conf = ConfOf(D)
    /\ jira = [k \in Keys |-> IF k = 1 THEN Issue1Of(D) ELSE NoIssue]
    /\ nextKey = 2
    /\ prs = [p \in PRs |-> IF p = 1 THEN PR1Of(D) ELSE BasePR]
    /\ phase = "loop"
    /\ run = 1
    /\ idx = 1
    /\ created_count = 0
    /\ preflight_ok = {}
    /\ log = <<>>
    /\ outcome = ""
    /\ created = [p \in PRs |-> 0]
    /\ cur = NoKey
    /\ found = <<>>
    /\ clean = TRUE
    /\ faults = {}
    /\ pending = NoIssue
    /\ manual = NoEdits

Init == \E D \in Scenarios : Started(D)

\* ------------------------------------------------------------------ actions
OkCreates(L) == Len(SelectSeq(L, LAMBDA e : e.op = "create" /\ e.ok))

\* src/main.py:810-811
Counted(out, count) == IF out = "created" THEN count + 1 ELSE count

\* the run ends once the maximum is exceeded
ReachedMaxLate(max_new, count) == max_new > 0 /\ count > max_new

\* src/main.py:812: the run ends once the maximum of new tickets is reached
ReachedMax(max_new, count) == max_new > 0 /\ count >= max_new

\* the run ends with any pull request whose processing raised
RunEndsOnError(out, max_new, count, i) ==
  (out = "created" /\ ReachedMax(max_new, count)) \/ out = "error" \/ i = NumPRs

\* src/main.py:805-817: the loop is over after pull request i, whose processing
\* ended with out: the maximum is reached or it was the last one
RunEnds(out, max_new, count, i) ==
  (out = "created" /\ ReachedMax(max_new, count)) \/ i = NumPRs

\* src/main.py:809-814 once process_pr has ended with r, the counter at cc
AfterProcess(r, cc, F) ==
  /\ jira' = r.S.J
  /\ prs' = r.S.G
  /\ log' = r.S.L
  /\ nextKey' = r.S.N
  /\ preflight_ok' = r.S.P
  /\ outcome' = r.out
  /\ created_count' = cc
  /\ created' = [created EXCEPT ![idx] = @ + OkCreates(r.S.L)]
  /\ cur' = idx
  /\ phase' = IF RunEnds(r.out, conf.maxNew, cc, idx) THEN "done" ELSE "loop"
  /\ idx' = IF RunEnds(r.out, conf.maxNew, cc, idx) THEN idx ELSE idx + 1
  /\ clean' = (clean /\ F = {})

Processed(r, F) == AfterProcess(r, Counted(r.out, created_count), F)

\* One iteration of the loop of main(), src/main.py:805-817, on pull request
\* idx: process_pr, the count of created tickets and the stop at the maximum.
ProcessPR ==
  /\ phase = "loop"
  /\ nextKey <= MaxKey
  /\ \E F \in FaultSets :
       Processed(process_pr(St(jira, prs, <<>>, nextKey, preflight_ok), conf, F, idx), F)
  /\ UNCHANGED <<conf, run, found, faults, pending, manual>>

\* The next run of main(): a new process, so created_count and
\* _JIRA_PREFLIGHT_OK start afresh (src/main.py:247, 801).
StartRun ==
  /\ phase = "done"
  /\ run < MaxRuns
  /\ run' = run + 1
  /\ idx' = 1
  /\ created_count' = 0
  /\ preflight_ok' = {}
  /\ phase' = "loop"
  /\ log' = <<>>
  /\ outcome' = ""
  /\ cur' = NoKey
  /\ UNCHANGED <<conf, jira, nextKey, prs, created, found, clean, faults, pending,
                 manual>>

Next == ProcessPR \/ StartRun

Spec == Init /\ [][Next]_vars

\* ------------------------------------------------------ main in a dry run
\* MODE=dry-run (src/main.py:35) with up to MaxDryDev further settings of those
\* that decide a mutating call: the switches of src/main.py:52-62, the target
\* status, and a pull request that has a ticket.
DryDeviations ==
  {"fix_labels", "fix_even_dry", "fix_links", "create_links", "title_existing",
   "comment_existing", "target_status", "target_path", "max_new_1",
   "release_field", "pr_commented", "issue_desc", "issue_link", "issue_open"}

DryScenarios == {D \cup {"dry_run"} : D \in SubsetsUpTo(DryDeviations, MaxDryDev)}

InitDry == \E D \in DryScenarios : Started(D)

SpecDry == InitDry /\ [][Next]_vars

\* ------------------------------------- main on a withdrawn ticket reference
\* Pull request 1 carries a comment naming issue 1, which is withdrawn
\* (src/main.py:713-719), with up to MaxDev further settings.
ReplaceDeviations ==
  {"pr_no_tokens", "fix_links", "fix_labels", "create_links", "title_existing",
   "comment_existing", "no_title_update", "target_status", "max_new_2"}

ReplaceScenarios == {D \cup {"pr_commented", "issue_withdrawn"} : D \in SubsetsUpTo(ReplaceDeviations, MaxDev)}

InitReplace == \E D \in ReplaceScenarios : Started(D)

SpecReplace == InitReplace /\ [][Next]_vars

\* ------------------------------------------- the search, called twice over
\* jira_find_existing_issue for pull request 1, and once more on the tracker
\* the first call left, the same requests failing.
FindDeviations == {"dry_run", "fix_links"}

FindEndpoints ==
  {"search_summary", "search_title", "search_token", "get_issue", "get_links",
   "add_link"}

FindFaults == SubsetsUpTo(FindEndpoints, MaxFaults)

\* the searches of pull request 1 that return an issue
HitSets ==
  {{}, {<<1, "summary">>}, {<<1, "title">>}, {<<1, "token">>},
   {<<1, "summary">>, <<1, "title">>, <<1, "token">>}}

\* what ties an issue to pull request 1: the URL in its description, a remote
\* link, an issue link
Evidence ==
  {[desc |-> 0, links |-> {}, ilinks |-> {}],
   [desc |-> 1, links |-> {}, ilinks |-> {}],
   [desc |-> 0, links |-> {1}, ilinks |-> {}],
   [desc |-> 0, links |-> {}, ilinks |-> {1}],
   [desc |-> 1, links |-> {1}, ilinks |-> {}]}

Candidate(e, h, status) ==
  [exists |-> TRUE, status |-> status, labels |-> {}, fixVersions |-> <<>>,
   epic |-> "", release |-> "", links |-> e.links, ilinks |-> e.ilinks,
   desc |-> e.desc, hits |-> h]

FindIssues ==
  {NoIssue}
  \cup {Candidate(e, h, "Open") : e \in Evidence, h \in HitSets}
  \cup {Candidate([desc |-> 1, links |-> {}, ilinks |-> {}],
                  {<<1, "summary">>, <<1, "title">>, <<1, "token">>}, "Withdrawn")}

TitleWords == {<<"Bump", "lodash", "to", "v3">>, <<"Bump", "to", "v3">>}

InitFind ==
  \E D \in SUBSET FindDeviations, issues \in [1..MaxIssues -> FindIssues],
     w \in TitleWords :
    /\ conf = ConfOf(D)
    /\ jira = [k \in Keys |-> IF k <= MaxIssues THEN issues[k] ELSE NoIssue]
    /\ nextKey = MaxIssues + 1
    /\ prs = [p \in PRs |-> IF p = 1 THEN [BasePR EXCEPT !.words = w] ELSE BasePR]
    /\ phase = "find"
    /\ run = 1
    /\ idx = 1
    /\ created_count = 0
    /\ preflight_ok = {}
    /\ log = <<>>
    /\ outcome = ""
    /\ created = [p \in PRs |-> 0]
    /\ cur = 1
    /\ found = <<>>
    /\ clean = TRUE
    /\ faults = {}
    /\ pending = NoIssue
    /\ manual = NoEdits

\* the call returned r
Searched(r, F, next) ==
  /\ jira' = r.S.J
  /\ log' = r.S.L
  /\ found' = Append(found, r.ret)
  /\ faults' = F
  /\ clean' = (F = {})
  /\ phase' = next
  /\ UNCHANGED <<conf, nextKey, prs, run, idx, created_count, preflight_ok, outcome,
                 created, cur, pending, manual>>

FindFirst ==
  /\ phase = "find"
  /\ \E F \in FindFaults :
       Searched(jira_find_existing_issue(St(jira, prs, <<>>, nextKey, preflight_ok),
                                         conf, F, 1),
                F, "again")

FindAgain ==
  /\ phase = "again"
  /\ Searched(jira_find_existing_issue(St(jira, prs, <<>>, nextKey, preflight_ok),
                                       conf, faults, 1),
              faults, "end")

NextFind == FindFirst \/ FindAgain

SpecFind == InitFind /\ [][NextFind]_vars

\* --------------------------------- reconciliation, a human at the same ticket
\* jira_ensure_ticket_fields on ticket 1 as process_pr calls it, split at its
\* two requests: the read of the snapshot and the write of the updates.
EnsureDeviations == {"dry_run", "fix_even_dry", "release_field"}

EnsureFaults == SubsetsUpTo({"get_issue", "update"}, MaxFaults)

TicketLabels == SUBSET {"manual", "CCD-BAU", "RENOVATE-PR", "GENERATED-BY-Agent"}

TicketVersions ==
  {<<>>, <<"1.0">>, <<JIRA_FIX_VERSION>>, <<"1.0", JIRA_FIX_VERSION>>}

HumanLabels == {"urgent"}

HumanVersions == {"2.0"}

InitEnsure ==
  \E D \in SUBSET EnsureDeviations, ls \in TicketLabels, vs \in TicketVersions,
     e \in {"", JIRA_EPIC_KEY}, r \in {"", "Tier 1: CI/CD"} :
    /\ conf = ConfOf(D \cup {"fix_labels"})
    /\ jira = [k \in Keys |->
                 IF k = 1
                 THEN [NoIssue EXCEPT !.exists = TRUE, !.status = "Open",
                                      !.labels = ls, !.fixVersions = vs, !.epic = e,
                                      !.release = r]
                 ELSE NoIssue]
    /\ nextKey = 2
    /\ prs = [p \in PRs |-> BasePR]
    /\ phase = "ensure"
    /\ run = 1
    /\ idx = 1
    /\ created_count = 0
    /\ preflight_ok = {}
    /\ log = <<>>
    /\ outcome = ""
    /\ created = [p \in PRs |-> 0]
    /\ cur = 1
    /\ found = <<>>
    /\ clean = TRUE
    /\ faults = {}
    /\ pending = NoIssue
    /\ manual = NoEdits

\* src/main.py:556: the snapshot g of the ticket
SnapshotTaken(g, F) ==
  /\ pending' = g.ret
  /\ log' = g.S.L
  /\ clean' = (clean /\ F = {})
  /\ phase' = "read"
  /\ UNCHANGED <<conf, jira, nextKey, prs, run, idx, created_count, preflight_ok,
                 outcome, created, cur, found, faults, manual>>

EnsureRead ==
  /\ phase = "ensure"
  /\ \E F \in EnsureFaults :
       SnapshotTaken(jira_get_issue(St(jira, prs, <<>>, nextKey, preflight_ok), conf, F,
                                    1),
                     F)

NumEdits == Cardinality(manual.labels) + Len(manual.fixVersions)

\* A human adds a label or a fix version to ticket 1, before the read or
\* between the read and the write.
HumanEdit ==
  /\ phase \in {"ensure", "read"}
  /\ NumEdits < MaxEdits
  /\ \/ \E l \in HumanLabels \ jira[1].labels :
          /\ jira' = [jira EXCEPT ![1].labels = @ \cup {l}]
          /\ manual' = [manual EXCEPT !.labels = @ \cup {l}]
     \/ \E v \in HumanVersions :
          /\ \A i \in 1..Len(jira[1].fixVersions) : jira[1].fixVersions[i] # v
          /\ jira' = [jira EXCEPT ![1].fixVersions = Append(@, v)]
          /\ manual' = [manual EXCEPT !.fixVersions = Append(@, v)]
  /\ UNCHANGED <<conf, nextKey, prs, phase, run, idx, created_count, preflight_ok, log,
                 outcome, created, cur, found, clean, faults, pending>>

\* src/main.py:557-586 has ended with r
Reconciled(r, F) ==
  /\ jira' = r.S.J
  /\ log' = r.S.L
  /\ outcome' = IF r.exc THEN "error" ELSE "ensured"
  /\ clean' = (clean /\ F = {})
  /\ phase' = "written"
  /\ UNCHANGED <<conf, nextKey, prs, run, idx, created_count, preflight_ok, created,
                 cur, found, faults, pending, manual>>

EnsureWrite ==
  /\ phase = "read"
  /\ \E F \in EnsureFaults :
       Reconciled(EnsureFromSnapshot([S |-> St(jira, prs, log, nextKey, preflight_ok),
                                      ret |-> pending],
                                     conf, F, 1, conf.jiraLabels, JIRA_FIX_VERSION,
                                     conf.raField, conf.raValue),
                  F)

\* src/main.py:549-586 has been called again, right after the first call, and
\* has ended with r
ReconciledAgain(r, F) ==
  /\ jira' = r.S.J
  /\ log' = r.S.L
  /\ outcome' = IF r.exc THEN "error" ELSE "ensured"
  /\ clean' = (clean /\ F = {})
  /\ phase' = "again"
  /\ UNCHANGED <<conf, nextKey, prs, run, idx, created_count, preflight_ok, created,
                 cur, found, faults, pending, manual>>

\* the second call of jira_ensure_ticket_fields on the ticket; the log notes
\* where the first call ended and whether it returned
EnsureAgain ==
  /\ phase = "written"
  /\ \E F \in EnsureFaults :
       ReconciledAgain(
         jira_ensure_ticket_fields(
           Returned(St(jira, prs, log, nextKey, preflight_ok),
                    "jira_ensure_ticket_fields", 1, outcome = "ensured"),
           conf, F, 1, conf.jiraLabels, JIRA_FIX_VERSION, conf.raField, conf.raValue),
         F)

NextEnsure == EnsureRead \/ HumanEdit \/ EnsureWrite \/ EnsureAgain

SpecEnsure == InitEnsure /\ [][NextEnsure]_vars

\* ------------------------------------------------------ status advancement
\* jira_transition_issue and jira_transition_issue_path on ticket 1, in some
\* status of the workflow, towards a target status and along a status path
\* (JIRA_TARGET_STATUS, JIRA_TARGET_STATUS_PATH of src/main.py:62-63).
AdvanceDeviations == {"dry_run", "fix_even_dry"}

AdvanceFaults == SubsetsUpTo({"get_issue", "list_transitions", "fire_transition"}, MaxFaults)

TicketStatuses == {"Open", "In Progress", "Resume QA", "Withdrawn"}

TargetStatuses == {"", "In Progress", "IN PROGRESS", "Resume QA", "Closed", "OPEN", "Withdrawn"}

TargetPaths ==
  {<<"In Progress", "Resume QA">>, <<"IN PROGRESS", "Resume QA">>, <<"Resume QA">>,
   <<"Closed", "In Progress">>, <<"In Progress", "Closed">>,
   <<"Resume QA", "In Progress">>, <<"Withdrawn", "In Progress">>,
   <<"In Progress", "OPEN">>}

InitAdvance ==
  \E D \in SUBSET AdvanceDeviations, st \in TicketStatuses, t \in TargetStatuses,
     path \in TargetPaths :
    /\ conf = [ConfOf(D) EXCEPT !.targetStatus = t, !.targetPath = path]
    /\ jira = [k \in Keys |->
                 IF k = 1 THEN [NewIssue(ConfOf(D), 1) EXCEPT !.status = st]
                 ELSE NoIssue]
    /\ nextKey = 2
    /\ prs = [p \in PRs |-> BasePR]
    /\ phase = "advance"
    /\ run = 1
    /\ idx = 1
    /\ created_count = 0
    /\ preflight_ok = {}
    /\ log = <<>>
    /\ outcome = ""
    /\ created = [p \in PRs |-> 0]
    /\ cur = 1
    /\ found = <<>>
    /\ clean = TRUE
    /\ faults = {}
    /\ pending = NoIssue
    /\ manual = NoEdits

\* the call named by fn has ended in state S; pending keeps the ticket as it
\* was before the call, faults the requests that failed
Advanced(S, F, fn) ==
  /\ jira' = S.J
  /\ log' = S.L
  /\ outcome' = fn
  /\ pending' = jira[1]
  /\ faults' = F
  /\ clean' = (clean /\ F = {})
  /\ phase' = "advanced"
  /\ UNCHANGED <<conf, nextKey, prs, run, idx, created_count, preflight_ok, created,
                 cur, found, manual>>

\* src/main.py:780
AdvanceOne ==
  /\ phase = "advance"
  /\ \E F \in AdvanceFaults :
       Advanced(jira_transition_issue(St(jira, prs, <<>>, nextKey, preflight_ok), conf, F,
                                      1, conf.targetStatus),
                F, "jira_transition_issue")

\* src/main.py:778
AdvancePath ==
  /\ phase = "advance"
  /\ \E F \in AdvanceFaults :
       Advanced(jira_transition_issue_path(St(jira, prs, <<>>, nextKey, preflight_ok),
                                           conf, F, 1, conf.targetPath),
                F, "jira_transition_issue_path")

NextAdvance == AdvanceOne \/ AdvancePath

SpecAdvance == InitAdvance /\ [][NextAdvance]_vars

\* every toggle left out is on
CreateCfgAllOn(create_jira_for) ==
  [security |-> IF "security" \in DOMAIN create_jira_for THEN create_jira_for.security
                ELSE TRUE,
   major |-> IF "major" \in DOMAIN create_jira_for THEN create_jira_for.major ELSE TRUE,
   critical |-> IF "critical" \in DOMAIN create_jira_for THEN create_jira_for.critical
                ELSE TRUE]

\* src/decision.py:37-45: the toggles needs_jira reads from create_jira_for, a
\* map that may lack keys; without a key security and major are on, critical-dep
\* is off, and an empty map is as no map
CreateCfg(create_jira_for) ==
  [security |-> IF "security" \in DOMAIN create_jira_for THEN create_jira_for.security
                ELSE TRUE,
   major |-> IF "major" \in DOMAIN create_jira_for THEN create_jira_for.major ELSE TRUE,
   critical |-> IF "critical" \in DOMAIN create_jira_for THEN create_jira_for.critical
                ELSE FALSE]

\* ------------------------------------------------------------ classification
\* needs_jira on a title of up to MaxTitle phrases, a body of up to MaxBody
\* phrases, the labels of the pull request, the critical dependency lodash
\* configured, and the create_jira_for toggles, all, some or none of them given.
LabelSets == {{}, {"Security"}, {"SECURITY", "bug"}, {"bug"}}

Toggles == [security : BOOLEAN, major : BOOLEAN, critical : BOOLEAN]

InitClassify ==
  \E title \in SeqsUpTo(Phrases, MaxTitle), body \in SeqsUpTo(Phrases, MaxBody),
     ls \in LabelSets,
     tg \in Toggles \cup [{"security", "major"} -> BOOLEAN] \cup [{} -> BOOLEAN] :
    /\ conf = [ConfOf({}) EXCEPT !.create_jira_for = CreateCfg(tg)]
    /\ jira = [k \in Keys |-> NoIssue]
    /\ nextKey = 1
    /\ prs = [p \in PRs |-> [state |-> "open", labels |-> ls, title |-> title,
                              body |-> body, critical_deps |-> {"lodash"},
                              create_jira_for |-> tg]]
    /\ phase = "classify"
    /\ run = 1
    /\ idx = 1
    /\ created_count = 0
    /\ preflight_ok = {}
    /\ log = <<>>
    /\ outcome = ""
    /\ created = [p \in PRs |-> 0]
    /\ cur = 1
    /\ found = <<>>
    /\ clean = TRUE
    /\ faults = {}
    /\ pending = NoIssue
    /\ manual = NoEdits

\* src/main.py:705-707: the category of pull request 1, "none" for None
Classify ==
  /\ phase = "classify"
  /\ outcome' = needs_jira(Triggers(prs[1].title, prs[1].body, prs[1].critical_deps),
                           prs[1].labels, CreateCfg(prs[1].create_jira_for))
  /\ phase' = "classified"
  /\ UNCHANGED <<conf, jira, nextKey, prs, run, idx, created_count, preflight_ok, log,
                 created, cur, found, clean, faults, pending, manual>>

NextClassify == Classify

SpecClassify == InitClassify /\ [][NextClassify]_vars

\* ------------------------------------------------------------- token query
\* _build_summary_token_jql on a text of up to MaxWords words
InitQuery ==
  \E text \in SeqsUpTo(Words, MaxWords) :
    /\ conf = ConfOf({})
    /\ jira = [k \in Keys |-> NoIssue]
    /\ nextKey = 1
    /\ prs = [p \in PRs |-> [BasePR EXCEPT !.words = text]]
    /\ phase = "query"
    /\ run = 1
    /\ idx = 1
    /\ created_count = 0
    /\ preflight_ok = {}
    /\ log = <<>>
    /\ outcome = ""
    /\ created = [p \in PRs |-> 0]
    /\ cur = 1
    /\ found = <<>>
    /\ clean = TRUE
    /\ faults = {}
    /\ pending = NoIssue
    /\ manual = NoEdits

\* src/main.py:300: found holds the words of the query built, outcome whether
\* there is a query
BuildQuery ==
  /\ phase = "query"
  /\ found' = _build_summary_token_jql(prs[1].words)
  /\ outcome' = IF _build_summary_token_jql(prs[1].words) = <<>> THEN "None" ELSE "jql"
  /\ phase' = "built"
  /\ UNCHANGED <<conf, jira, nextKey, prs, run, idx, created_count, preflight_ok, log,
                 created, cur, clean, faults, pending, manual>>

NextQuery == BuildQuery

SpecQuery == InitQuery /\ [][NextQuery]_vars

\* ------------------------------------------------- repository configuration
\* A configuration is a map from keys to values, some of them maps again.
\* src/main.py:106-119, the keys the model follows
defaults ==
  [enabled |-> TRUE,
   create_jira_for |-> [security |-> TRUE, major |-> TRUE, critical |-> FALSE],
   jira |-> [project |-> "CCD",
             priority |-> [c \in {"security", "major", "critical-dep"} |->
                             IF c = "major" THEN "Medium" ELSE "High"],
             labels |-> {"CCD-BAU", "RENOVATE-PR", "GENERATED-BY-Agent"}],
   github |-> [comment |-> TRUE, add_labels |-> TRUE]]

\* {**d, **o}, and dict.update: the keys of o with their values in o, the other
\* keys of d with their values in d
DictMerge(d, o) ==
  [k \in (DOMAIN d) \cup (DOMAIN o) |-> IF k \in DOMAIN o THEN o[k] ELSE d[k]]

\* cfg.get(k, {})
GetMap(cfg, k) == IF k \in DOMAIN cfg THEN cfg[k] ELSE [x \in {} |-> TRUE]

\* src/main.py:121-129
merge_config(cfg) ==
  [DictMerge(defaults, cfg) EXCEPT
     !.create_jira_for = DictMerge(defaults.create_jira_for, GetMap(cfg, "create_jira_for")),
     !.jira = DictMerge(defaults.jira, GetMap(cfg, "jira")),
     !.github = DictMerge(defaults.github, GetMap(cfg, "github"))]

\* src/main.py:144-154: the file of the repository read as cfg, or not read
load_repo_config(cfg, F) == IF "get_contents" \in F THEN defaults ELSE merge_config(cfg)

\* src/main.py:759-760
PriorityOf(cfg, category) ==
  IF category \in DOMAIN GetMap(GetMap(cfg, "jira"), "priority")
  THEN cfg.jira.priority[category]
  ELSE "Medium"

\* the contents of .github/renovate-jira.yml: for each top-level key, nothing
\* or one of some values
OverrideParts ==
  <<{[x \in {} |-> TRUE], [enabled |-> FALSE]},
    {[x \in {} |-> TRUE], [create_jira_for |-> [critical |-> TRUE]],
     [create_jira_for |-> [security |-> FALSE, major |-> FALSE]]},
    {[x \in {} |-> TRUE], [jira |-> [project |-> "ABC"]],
     [jira |-> [priority |-> [c \in {"security"} |-> "Highest"]]],
     [jira |-> [project |-> "ABC",
                priority |-> [c \in {"security", "major"} |->
                                IF c = "major" THEN "Low" ELSE "Highest"]]],
     [jira |-> [labels |-> {"TEAM"}]]},
    {[x \in {} |-> TRUE], [github |-> [comment |-> FALSE]],
     [github |-> [add_labels |-> FALSE, comment |-> TRUE]]}>>

InitConfig ==
  \E a \in OverrideParts[1], b \in OverrideParts[2], c \in OverrideParts[3],
     d \in OverrideParts[4], F \in {{}, {"get_contents"}} :
    /\ conf = defaults
    /\ pending = DictMerge(DictMerge(a, b), DictMerge(c, d))
    /\ faults = F
    /\ jira = [k \in Keys |-> NoIssue]
    /\ nextKey = 1
    /\ prs = [p \in PRs |-> BasePR]
    /\ phase = "config"
    /\ run = 1
    /\ idx = 1
    /\ created_count = 0
    /\ preflight_ok = {}
    /\ log = <<>>
    /\ outcome = ""
    /\ created = [p \in PRs |-> 0]
    /\ cur = 1
    /\ found = <<>>
    /\ clean = (F = {})
    /\ manual = NoEdits

\* src/main.py:803: conf becomes the configuration of the repository
LoadConfig ==
  /\ phase = "config"
  /\ conf' = load_repo_config(pending, faults)
  /\ phase' = "loaded"
  /\ UNCHANGED <<jira, nextKey, prs, run, idx, created_count, preflight_ok, log, outcome,
                 created, cur, found, clean, faults, pending, manual>>

\* src/main.py:759-760: the priority of a ticket of some category; found holds
\* the category, outcome the priority
ReadPriority ==
  /\ phase = "loaded"
  /\ \E category \in {"security", "major", "critical-dep"} :
       /\ found' = <<category>>
       /\ outcome' = PriorityOf(conf, category)
  /\ phase' = "priority"
  /\ UNCHANGED <<conf, jira, nextKey, prs, run, idx, created_count, preflight_ok, log,
                 created, cur, clean, faults, pending, manual>>

NextConfig == LoadConfig \/ ReadPriority

SpecConfig == InitConfig /\ [][NextConfig]_vars

\* ----------------------------------------- one pull request, dry and mutating
\* The loop of main in a mutating run, no request failing, with process_pr
\* called on each pull request as a dry run would (MODE=dry-run,
\* src/main.py:35) just before, from the same pull request, configuration and
\* tracker: what the dry run returns is recorded and nothing else of it kept.
DecideDeviations ==
  {"fix_links", "fix_labels", "fix_even_dry", "create_links", "title_existing",
   "comment_existing", "target_status", "pr_commented", "pr_no_tokens", "pr_no_trigger",
   "issue_open", "issue_skip", "issue_withdrawn", "issue_desc", "issue_link"}

InitDecide == \E D \in SubsetsUpTo(DecideDeviations, MaxDev) : Started(D)

\* src/main.py:688-794 on pull request idx with MODE=dry-run; found holds how
\* it ended
DryDecide ==
  /\ phase = "loop"
  /\ found' = <<process_pr(St(jira, prs, <<>>, nextKey, preflight_ok), [conf EXCEPT !.mode = "dry-run"], {}, idx).out>>
  /\ phase' = "dry"
  /\ UNCHANGED <<conf, jira, nextKey, prs, run, idx, created_count, preflight_ok, log,
                 outcome, created, cur, clean, faults, pending, manual>>

\* src/main.py:805-817 with MODE=run, on what the dry run started from
RunDecide ==
  /\ phase = "dry"
  /\ Processed(process_pr(St(jira, prs, <<>>, nextKey, preflight_ok), conf, {}, idx), {})
  /\ UNCHANGED <<conf, run, found, faults, pending, manual>>

NextDecide == DryDecide \/ RunDecide

SpecDecide == InitDecide /\ [][NextDecide]_vars

\* ------------------------------------------------ the title prefix, as text
\* A title is the sequence of its parts, which single spaces join: ticket keys
\* in either case, the separator "::" and other words. A key is "" for none.
TitleParts == {"CCD-1", "CCD-2", "ccd-2", "::", "Bump"}

KeyTexts == {"CCD-1", "ccd-1", ""}

\* str.upper() on a key
UpperKey(w) == CASE w = "ccd-1" -> "CCD-1" [] w = "ccd-2" -> "CCD-2" [] OTHER -> w

\* src/main.py:638: the title starts with a key and the separator
HasKeyPrefix(title) ==
  Len(title) >= 2 /\ UpperKey(title[1]) \in {"CCD-1", "CCD-2"} /\ title[2] = "::"

\* _prefixed_pr_title, src/main.py:633-648, on the title as text
prefixed_pr_title_text(current_title, issue_key) ==
  IF current_title = <<>> \/ issue_key = "" THEN current_title
  ELSE IF ~HasKeyPrefix(current_title) THEN <<UpperKey(issue_key), "::">> \o current_title
  ELSE IF UpperKey(current_title[1]) = UpperKey(issue_key) THEN current_title
  ELSE IF Len(current_title) > 2
       THEN <<UpperKey(issue_key), "::">> \o SubSeq(current_title, 3, Len(current_title))
       ELSE <<UpperKey(issue_key)>>

\* found holds the title of the pull request, outcome the key
InitPrefix ==
  /\ \E title \in SeqsUpTo(TitleParts, MaxWords), key \in KeyTexts :
       /\ found = title
       /\ outcome = key
  /\ conf = ConfOf({})
  /\ jira = [k \in Keys |-> NoIssue]
  /\ nextKey = 2
  /\ prs = [p \in PRs |-> BasePR]
  /\ phase = "title"
  /\ run = 1
  /\ idx = 1
  /\ created_count = 0
  /\ preflight_ok = {}
  /\ log = <<>>
  /\ created = [p \in PRs |-> 0]
  /\ cur = NoKey
  /\ clean = TRUE
  /\ faults = {}
  /\ pending = NoIssue
  /\ manual = NoEdits

\* src/main.py:658-671 in a mutating run, pr.edit succeeding: the title is
\* edited when the prefixed title differs from it
TitleUpdated(desired) ==
  /\ found' = desired
  /\ log' = IF desired = found THEN log ELSE Append(log, Ev("edit_title", NoKey, "", TRUE))

\* maybe_update_pr_title_with_jira, src/main.py:650-671, in the first run and
\* in a later one
UpdateTitle ==
  /\ phase \in {"title", "once"}
  /\ TitleUpdated(prefixed_pr_title_text(found, outcome))
  /\ phase' = IF phase = "title" THEN "once" ELSE "twice"
  /\ UNCHANGED <<conf, jira, nextKey, prs, run, idx, created_count, preflight_ok,
                 outcome, created, cur, clean, faults, pending, manual>>

NextPrefix == UpdateTitle

SpecPrefix == InitPrefix /\ [][NextPrefix]_vars

\* ================================================================== claims
\* what the log of the last handler call shows
Requested(op) == \E i \in DOMAIN log : log[i].op = op

Succeeded(op) == \E i \in DOMAIN log : log[i].op = op /\ log[i].ok

Failed(op) == \E i \in DOMAIN log : log[i].op = op /\ ~log[i].ok

SucceededOn(op, key) ==
  \E i \in DOMAIN log : log[i].op = op /\ log[i].key = key /\ log[i].ok

\* function fn returned, truthy (ok) or not
ReturnedBy(fn, ok) ==
  \E i \in DOMAIN log : log[i].op = "return" /\ log[i].arg = fn /\ log[i].ok = ok

MutatingOps == {"update", "add_link", "fire_transition", "create"}

\* C1: over consecutive mutating runs on unchanged pull requests, no request
\* failing and nobody but the agent changing the tracker, create-issue
\* succeeds at most once for each pull request.
C1_CreatedAtMostOnce ==
  (clean /\ conf.mode = "run") => \A p \in PRs : created[p] <= 1

\* C2: when the ticket correlated to the pull request is in a skip status, the
\* processing of the pull request makes no mutating tracker call at all: no
\* update, no remote link, no transition, no creation.
C2_SkipStatusUntouched ==
  (clean /\ outcome = "skip_status") =>
    \A i \in DOMAIN log : log[i].op \notin MutatingOps

CreateInvoked == Requested("create") \/ (conf.mode = "dry-run" /\ outcome = "created")

WithdrawnReference ==
  /\ ReturnedBy("pr_has_ticket_in_comments", TRUE)
  /\ ReturnedBy("jira_is_withdrawn", TRUE)

\* the key the comments gave names a ticket whose status is Withdrawn, and
\* the ticket was read
ReferenceIsWithdrawn ==
  \E i \in DOMAIN log :
    /\ log[i].op = "return" /\ log[i].arg = "pr_has_ticket_in_comments" /\ log[i].ok
    /\ jira[log[i].key].exists /\ Lower(jira[log[i].key].status) = "withdrawn"
    /\ SucceededOn("get_issue", log[i].key)

\* C3: a key of the comments whose ticket is Withdrawn is discarded and not
\* taken as an existing ticket: the withdrawn check returns true, the search
\* is called, and when the search returns no ticket create-issue is invoked
\* for the pull request (in a dry run without a request). Only a preflight
\* request that fails stands between the search and create-issue: it raises
\* (src/main.py:257-260) and the pull request ends as an error, no ticket
\* created.
C3_WithdrawnThenSearchThenCreate ==
  /\ ReferenceIsWithdrawn => WithdrawnReference
  /\ WithdrawnReference =>
       /\ ReturnedBy("jira_find_existing_issue", TRUE)
            \/ ReturnedBy("jira_find_existing_issue", FALSE)
       /\ ReturnedBy("jira_find_existing_issue", FALSE) =>
            IF Failed("myself") \/ Failed("project")
            THEN outcome = "error" /\ ~Requested("create")
            ELSE CreateInvoked

C3_Witness ==
  /\ ReferenceIsWithdrawn
  /\ WithdrawnReference
  /\ ReturnedBy("jira_find_existing_issue", FALSE)
  /\ Succeeded("create")
  /\ outcome = "created"

Has(seq, x) == \E i \in DOMAIN seq : seq[i] = x

\* C4: with nobody else editing the ticket, jira_ensure_ticket_fields removes
\* nothing: after an update the labels are the labels read united with the
\* desired ones and the fix versions are those read, the desired name appended
\* when it was missing; without an update the ticket is as it was read.
C4_ReconcileOnlyAdds ==
  (phase = "written" /\ manual = NoEdits) =>
    /\ ~pending.exists => ~Requested("update")
    /\ (pending.exists /\ Succeeded("update")) =>
         /\ jira[1].labels = pending.labels \cup conf.jiraLabels
         /\ jira[1].fixVersions =
              IF Has(pending.fixVersions, JIRA_FIX_VERSION)
              THEN pending.fixVersions
              ELSE Append(pending.fixVersions, JIRA_FIX_VERSION)
    /\ (pending.exists /\ ~Succeeded("update")) =>
         /\ jira[1].labels = pending.labels
         /\ jira[1].fixVersions = pending.fixVersions

C4_Witness ==
  /\ phase = "written"
  /\ manual = NoEdits
  /\ Succeeded("update")
  /\ pending.labels = {"manual", "CCD-BAU"}
  /\ jira[1].labels = {"manual", "CCD-BAU", "RENOVATE-PR", "GENERATED-BY-Agent"}
  /\ pending.fixVersions = <<"1.0">>
  /\ jira[1].fixVersions = <<"1.0", JIRA_FIX_VERSION>>

\* C5: a label or a fix version a human adds to the ticket during the
\* reconciliation, also between its read and its write, is on the ticket when
\* the reconciliation has ended.
C5_ManualEditsSurvive ==
  (clean /\ phase = "written") =>
    /\ manual.labels \subseteq jira[1].labels
    /\ \A i \in DOMAIN manual.fixVersions :
         Has(jira[1].fixVersions, manual.fixVersions[i])

\* the results of the calls of the search, SpecFind
LastFound == found[Len(found)]

\* C6: jira_find_existing_issue returns a key only of an issue that, when
\* the call returns, has the pull request URL in its description or carries a
\* link to the pull request, be it one the call has just attached.
C6_ReturnsOnlyWithEvidence ==
  (found # <<>> /\ LastFound # NoKey) =>
    /\ IssueAt(jira, LastFound).exists
    /\ \/ jira[LastFound].desc = 1
       \/ 1 \in jira[LastFound].links
       \/ 1 \in jira[LastFound].ilinks

C6_Witness ==
  /\ phase = "again"
  /\ found = <<2>>
  /\ SucceededOn("add_link", 2)
  /\ jira[2].desc = 0
  /\ jira[1].exists

\* an exact-phrase search of pull request 1 returns issue k
ExactHit(k) ==
  /\ jira[k].exists
  /\ Lower(jira[k].status) # "withdrawn"
  /\ \E i \in DOMAIN ExactKinds : <<1, ExactKinds[i]>> \in jira[k].hits

\* issue k tied to pull request 1 before the call
HadEvidence(k) ==
  \/ jira[k].desc = 1
  \/ 1 \in jira[k].ilinks
  \/ 1 \in jira[k].links /\ ~SucceededOn("add_link", k)

\* C7: when an exact-phrase search returns, at whatever position, an issue
\* with the pull request URL in its description or with a link to the pull
\* request, the call returns the key of such an issue, whatever the mode, the
\* link setting and the title.
C7_ExactPhaseConfirmsEach ==
  (clean /\ phase = "again") =>
    ((\E k \in 1..MaxIssues : ExactHit(k) /\ HadEvidence(k)) =>
       /\ found[1] # NoKey
       /\ ExactHit(found[1])
       /\ HadEvidence(found[1]))

\* the place of a search in the order of the evidence
Rank(kind) == CASE kind = "summary" -> 1 [] kind = "title" -> 2 [] OTHER -> 3

\* C8: the evidence is consulted in order and the first match ends it: no
\* search after a key of the comments that is not withdrawn; the searches in
\* the order summary, title, token, each once; the token search only after
\* both exact-phrase searches, none of which confirmed a ticket; no search
\* once a ticket is confirmed; the comments read before any search.
C8_EvidenceInOrder ==
  /\ (ReturnedBy("pr_has_ticket_in_comments", TRUE)
        /\ ReturnedBy("jira_is_withdrawn", FALSE)) => ~Requested("search")
  /\ \A i, j \in DOMAIN log :
       (i < j /\ log[j].op = "search") =>
         /\ log[i].op = "search" => Rank(log[i].arg) < Rank(log[j].arg)
         /\ log[i].op # "confirm"
  /\ \A j \in DOMAIN log :
       (log[j].op = "search" /\ log[j].arg = "token") =>
         \A n \in DOMAIN ExactKinds :
           \E i \in 1..(j - 1) : log[i].op = "search" /\ log[i].arg = ExactKinds[n]
  /\ \A j \in DOMAIN log :
       log[j].op = "search" => \E i \in 1..(j - 1) : log[i].op = "list_comments"

C8_Witness ==
  /\ \E j \in DOMAIN log : log[j].op = "search" /\ log[j].arg = "token"
  /\ \E j \in DOMAIN log : log[j].op = "confirm" /\ log[j].arg = "token"
  /\ ReturnedBy("jira_find_existing_issue", TRUE)
  /\ outcome = "tracked"

\* C9: jira_find_existing_issue called twice in succession, the tracker
\* changed by the first call only and answering alike, returns the same both
\* times.
C9_FindIdempotent == phase = "end" => found[1] = found[2]

C9_Witness ==
  /\ phase = "end"
  /\ found = <<2, 2>>
  /\ conf.fixLinks
  /\ jira[2].desc = 0
  /\ jira[2].ilinks = {}
  /\ ~Requested("add_link")

\* src/main.py:809-814 in a step of the loop: the counter goes up by one when
\* process_pr has created, and in a mutating run that is when the tracker
\* has a new ticket
CountedStep ==
  /\ created_count' = created_count + (IF outcome' = "created" THEN 1 ELSE 0)
  /\ conf.mode = "run" => (outcome' = "created" <=> nextKey' = nextKey + 1)

Capped == conf.maxNew > 0 => created_count <= conf.maxNew

StopsAtMax ==
  (conf.maxNew > 0 /\ created_count = conf.maxNew) =>
    (phase = "done" /\ outcome = "created")

EndsOnlyThen ==
  phase = "done" =>
    (idx = NumPRs \/ (conf.maxNew > 0 /\ created_count = conf.maxNew))

\* C10: with a maximum N > 0 the counter of created tickets never exceeds N;
\* it goes up by exactly one with each pull request whose processing created
\* (in a dry run: would have created) a ticket and with no other; the run
\* ends, normally, as soon as it is N, the later pull requests unprocessed;
\* with N = 0 the run ends only after the last pull request.
C10_CounterCapsRun ==
  /\ [](Capped /\ StopsAtMax /\ EndsOnlyThen)
  /\ [][phase = "loop" => CountedStep]_vars

C10_Witness ==
  /\ conf.maxNew = 1
  /\ created_count = 1
  /\ phase = "done"
  /\ idx = 1
  /\ Succeeded("create")

\* the requests that change the tracker or a pull request
EffectOps ==
  MutatingOps \cup {"edit_title", "edit_title_issue", "add_comment", "add_labels"}

\* C11: when the create-issue call fails, the processing of the pull request
\* ends there, raising: no request follows it, neither the tracker nor the
\* pull request has changed, the counter of created tickets is as it was, and
\* the loop goes on to the next pull request.
C11_CreateFailureAborts ==
  [][(phase = "loop"
        /\ \E i \in DOMAIN log' : log'[i].op = "create" /\ ~log'[i].ok) =>
       /\ outcome' = "error"
       /\ log'[Len(log')].op = "create"
       /\ \A i \in DOMAIN log' : log'[i].op \in EffectOps => ~log'[i].ok
       /\ jira' = jira
       /\ prs' = prs
       /\ nextKey' = nextKey
       /\ created_count' = created_count
       /\ idx < NumPRs => (phase' = "loop" /\ idx' = idx + 1)]_vars

C11_Witness ==
  /\ Failed("create")
  /\ outcome = "error"
  /\ cur = 1
  /\ idx = 2
  /\ phase = "loop"

\* C12: a pull request whose processing raises does not end the run: the
\* loop goes on to the next pull request, and it ends before the last pull
\* request only with a created ticket that makes the maximum.
C12_FailureNeverAbortsRun ==
  /\ (outcome = "error" /\ cur < NumPRs) => (phase = "loop" /\ idx = cur + 1)
  /\ (phase = "done" /\ cur < NumPRs) =>
       /\ outcome = "created"
       /\ conf.maxNew > 0
       /\ created_count = conf.maxNew

C12_Witness ==
  /\ outcome = "error"
  /\ Failed("update")
  /\ cur = 1
  /\ idx = 2
  /\ phase = "loop"

\* a request of the pull request steps (title, comment) follows entry i
PRStepAfter(i) ==
  \E j \in DOMAIN log :
    j > i /\ log[j].op \in {"list_comments", "add_comment", "edit_title"}

\* C13: when the field update of the reconciliation of an existing ticket
\* fails, the processing of the pull request goes on: it ends as for a tracked
\* pull request, and with the comment on existing tickets enabled the look
\* into the comments follows the failed update.
C13_UpdateFailureSkipsOnlyUpdate ==
  \A i \in DOMAIN log :
    (log[i].op = "update" /\ ~log[i].ok) =>
      /\ outcome = "tracked"
      /\ (conf.ghComment /\ conf.commentExisting) => PRStepAfter(i)

\* the ticket b is the ticket a but for the fields the reconciliation writes
SameButFields(a, b) ==
  IF ~a.exists THEN b = a
  ELSE b = [a EXCEPT !.labels = b.labels, !.fixVersions = b.fixVersions,
                     !.epic = b.epic, !.release = b.release]

NoEffectIn(L, ops) == \A i \in DOMAIN L : L[i].op \notin ops

\* C14 as stated: in a dry run no mutating request is made, whatever the
\* configuration, and the tracker and the pull requests stay as they were.
C14_DryRunChangesNothing ==
  [][conf.mode = "dry-run" =>
       /\ NoEffectIn(log', EffectOps)
       /\ jira' = jira
       /\ prs' = prs]_vars

\* C14, amended: in a dry run no ticket is created, no link is added, no
\* transition is fired and no pull request is commented, labelled or renamed;
\* the pull requests stay as they were, and so does the tracker, except that
\* with FIX_TICKET_LABELS_EVEN_IN_DRY_MODE the field update of the
\* reconciliation is sent and changes the reconciled fields of the ticket.
C14_DryRunChangesFieldsAtMost ==
  [][conf.mode = "dry-run" =>
       /\ NoEffectIn(log', EffectOps \ {"update"})
       /\ prs' = prs
       /\ nextKey' = nextKey
       /\ \A k \in Keys : SameButFields(jira[k], jira'[k])
       /\ ~conf.fixEvenDry => (jira' = jira /\ NoEffectIn(log', {"update"}))]_vars

C14_Witness ==
  /\ conf.mode = "dry-run"
  /\ conf.fixEvenDry
  /\ Succeeded("update")
  /\ outcome = "tracked"
  /\ jira[1].labels = conf.jiraLabels

\* the ticket t holds every value the reconciliation wants
Converged(t) ==
  /\ t.exists
  /\ conf.jiraLabels \subseteq t.labels
  /\ Has(t.fixVersions, JIRA_FIX_VERSION)
  /\ t.epic = JIRA_EPIC_KEY
  /\ conf.raField => t.release = conf.raValue

\* entry b of the log is where the first call of the reconciliation ended
FirstEnded(b) ==
  /\ b \in DOMAIN log
  /\ log[b].op = "return"
  /\ log[b].arg = "jira_ensure_ticket_fields"

\* the update requests among the entries from..to of the log
UpdatesIn(from, to) == Cardinality({i \in from..to : log[i].op = "update"})

\* the first call made its requests, none failed, and it returned
FirstSucceeded(b) ==
  /\ log[b].ok
  /\ \E i \in 1..(b - 1) : log[i].op = "get_issue"
  /\ \A i \in 1..(b - 1) : log[i].ok

\* C15: a call of jira_ensure_ticket_fields sends at most one update, and
\* none when the ticket it read holds the desired labels, fix version, epic
\* link and release approach; a second call right after a call that
\* succeeded sends none.
C15_OneUpdateNoneWhenConverged ==
  /\ phase = "written" =>
       /\ UpdatesIn(1, Len(log)) <= 1
       /\ Converged(pending) => UpdatesIn(1, Len(log)) = 0
  /\ phase = "again" =>
       \A b \in DOMAIN log :
         FirstEnded(b) =>
           /\ UpdatesIn(1, b) <= 1
           /\ UpdatesIn(b, Len(log)) <= 1
           /\ FirstSucceeded(b) => UpdatesIn(b, Len(log)) = 0

C15_Witness ==
  /\ phase = "again"
  /\ \E b \in DOMAIN log :
       /\ FirstEnded(b)
       /\ FirstSucceeded(b)
       /\ UpdatesIn(1, b) = 1
       /\ \E i \in (b + 1)..Len(log) : log[i].op = "get_issue" /\ log[i].ok
  /\ Converged(jira[1])
  /\ conf.raField

TargetConfigured == conf.targetStatus # "" \/ conf.targetPath # <<>>

\* C16: with a target status or a status path configured, a mutating run in
\* which no request fails advances the ticket of the pull request, be the
\* ticket newly created or an existing one that is not in a skip status: the
\* ticket not being at the target, its transitions are asked for.
C16_AdvancesCreatedAndExisting ==
  (clean /\ conf.mode = "run" /\ TargetConfigured
     /\ outcome \in {"created", "tracked"}) =>
    Requested("list_transitions")

\* the status read at the start of the call answered
StatusRead == log # <<>> /\ log[1].op = "get_issue" /\ log[1].ok

\* the transitions fired, in the order of the requests
Fired == SelectSeq(log, LAMBDA e : e.op = "fire_transition")

\* the workflow offers, from the status the ticket had, a transition whose
\* name is the status name but for the case of its letters
Offered(status_name) ==
  \E i \in DOMAIN Workflow(pending.status) :
    Lower(Workflow(pending.status)[i]) = Lower(status_name)

\* C17: jira_transition_issue towards a target the ticket is read to be in,
\* case ignored, lists and fires no transition. Otherwise it fires at most
\* one transition, one the workflow offers and whose name is the target's, case
\* ignored, and in a mutating run whose list request answers it does fire it;
\* when the workflow offers none of that name nothing is fired and the ticket
\* stays as it was. The call returns in every case.
C17_FiresTheMatchingTransition ==
  (phase = "advanced" /\ outcome = "jira_transition_issue") =>
    /\ (StatusRead /\ Lower(pending.status) = Lower(conf.targetStatus)) =>
         /\ ~Requested("list_transitions")
         /\ Fired = <<>>
    /\ Len(Fired) <= 1
    /\ \A i \in DOMAIN Fired :
         /\ Lower(Fired[i].arg) = Lower(conf.targetStatus)
         /\ Has(Workflow(pending.status), Fired[i].arg)
         /\ Fired[i].ok => jira[1].status = Fired[i].arg
    /\ (/\ conf.mode = "run"
        /\ conf.targetStatus # ""
        /\ Lower(pending.status) # Lower(conf.targetStatus)
        /\ Succeeded("list_transitions")
        /\ Offered(conf.targetStatus)) => Len(Fired) = 1
    /\ ~Offered(conf.targetStatus) => Fired = <<>>
    /\ ~Succeeded("fire_transition") => jira[1] = pending

C17_Witness ==
  /\ phase = "advanced"
  /\ outcome = "jira_transition_issue"
  /\ pending.status = "Open"
  /\ conf.targetStatus = "IN PROGRESS"
  /\ Len(Fired) = 1
  /\ Fired[1].ok
  /\ jira[1].status = "In Progress"

RECURSIVE InOrder(_, _)
\* the names fired are names of the path, in its order, case ignored
InOrder(fired, path) ==
  IF fired = <<>> THEN TRUE
  ELSE IF path = <<>> THEN FALSE
  ELSE IF Lower(Head(fired).arg) = Lower(Head(path))
       THEN InOrder(Tail(fired), Tail(path))
       ELSE InOrder(fired, Tail(path))

\* the status reads: one at the start of the path call, one for every hop
Reads == {i \in DOMAIN log : log[i].op = "get_issue"}

\* C18: jira_transition_issue_path on a ticket read to be in the last status
\* of the path makes no transition request. Otherwise, in a mutating run, every
\* status of the path gets its hop, one after the other in the order of the
\* path, and a hop fires at most one transition: the transitions fired follow
\* the order of the path and two of them are never in the same hop.
C18_PathHopsInOrder ==
  (phase = "advanced" /\ outcome = "jira_transition_issue_path") =>
    /\ (StatusRead
          /\ Lower(pending.status) = Lower(conf.targetPath[Len(conf.targetPath)])) =>
         /\ ~Requested("list_transitions")
         /\ Fired = <<>>
         /\ Cardinality(Reads) = 1
    /\ (conf.mode = "run"
          /\ ~(StatusRead
                 /\ Lower(pending.status) = Lower(conf.targetPath[Len(conf.targetPath)]))) =>
         Cardinality(Reads) = 1 + Len(conf.targetPath)
    /\ InOrder(Fired, conf.targetPath)
    /\ \A i, j \in DOMAIN log :
         (i < j /\ log[i].op = "fire_transition" /\ log[j].op = "fire_transition") =>
           \E k \in Reads : i < k /\ k < j
    /\ \A i \in DOMAIN log :
         log[i].op = "fire_transition" =>
           /\ i > 2
           /\ log[i - 1].op = "list_transitions"
           /\ log[i - 2].op = "get_issue"

C18_Witness ==
  /\ phase = "advanced"
  /\ outcome = "jira_transition_issue_path"
  /\ pending.status = "Open"
  /\ conf.targetPath = <<"IN PROGRESS", "Resume QA">>
  /\ Len(Fired) = 2
  /\ jira[1].status = "Resume QA"

\* the text of pull request 1
Text == prs[1].title \o prs[1].body

\* a well-formed CVE identifier, in capitals or in small letters, is in the
\* title or in the body, or a label is the word security in some case
SecurityTrigger ==
  \/ \E i \in DOMAIN Text : Text[i] \in {"CVE-2024-12345", "cve-2024-12345"}
  \/ prs[1].labels \cap {"security", "Security", "SECURITY"} # {}

SecurityWins == SecurityTrigger /\ conf.create_jira_for.security

MajorWins == is_major_bump(prs[1].title, prs[1].body) /\ conf.create_jira_for.major

CriticalWins ==
  /\ touches_critical_dependency(Text, prs[1].critical_deps)
  /\ conf.create_jira_for.critical

\* C19: needs_jira gives the category of the first rule, in the order
\* security, major, critical-dep, that matches and is enabled; a rule that
\* matches but is disabled gives way to the later ones, and no category is
\* given exactly when no enabled rule matches. A well-formed CVE identifier in
\* title or body, in any case, or a label security, in any case, gives security
\* when that rule is enabled, whatever else the text holds.
C19_FirstEnabledRuleWins ==
  phase = "classified" =>
    /\ SecurityWins => outcome = "security"
    /\ outcome = "security" => SecurityWins
    /\ outcome = "major" <=> (MajorWins /\ ~SecurityWins)
    /\ outcome = "critical-dep" <=> (CriticalWins /\ ~MajorWins /\ ~SecurityWins)
    /\ outcome = "none" <=> (~SecurityWins /\ ~MajorWins /\ ~CriticalWins)

C19_Witness ==
  /\ phase = "classified"
  /\ prs[1].title = <<"Breaking", "log4j">>
  /\ prs[1].body = <<"cve-2024-12345">>
  /\ conf.create_jira_for = [security |-> TRUE, major |-> TRUE, critical |-> TRUE]
  /\ outcome = "security"

\* C20: with the major rule enabled and no security match, the category is
\* major whenever some range of title and body has different leading numbers,
\* also after a range with equal leading numbers; and a text whose only
\* candidates are ranges with equal leading numbers is not major.
C20_AnyRangeTriggers ==
  (phase = "classified" /\ conf.create_jira_for.major /\ ~SecurityTrigger) =>
    /\ RangeRuleAny(Text) => outcome = "major"
    /\ (~RangeRuleAny(Text) /\ ~KeywordIn(Text) /\ ~ToRule(prs[1].title)) =>
         outcome # "major"

\* nothing but the 'to N' phrases of the text can make it major, and the
\* security rule does not match
OnlyToPhrases ==
  /\ ~SecurityTrigger
  /\ conf.create_jira_for.major
  /\ \A i \in DOMAIN Text :
       Text[i] \notin {"Breaking", "2.9.3 -> 3.2.3", "1.2.3 -> 1.2.4"}

\* the first 'to N' phrase of the title
FirstTo == SelectSeq(prs[1].title, LAMBDA t : t \in {"to v3", "to v1.2", "to 1"})[1]

TitleHasTo == \E i \in DOMAIN prs[1].title : prs[1].title[i] \in {"to v3", "to v1.2", "to 1"}

\* C21: the 'to [v]N[.M]' rule reads the title only and triggers exactly when
\* the number N of the title's (first) such phrase is greater than 1: 'to v3' in
\* the title is major, 'to v1.2' and 'to 1' are not, and 'to v3' in the body
\* alone is not.
C21_ToRuleReadsTitleOnly ==
  (phase = "classified" /\ OnlyToPhrases) =>
    (outcome = "major" <=> (TitleHasTo /\ FirstTo = "to v3"))

C21_Witness ==
  /\ phase = "classified"
  /\ OnlyToPhrases
  /\ prs[1].title = <<"lodash", "to v1.2">>
  /\ prs[1].body = <<"to v3">>
  /\ outcome # "major"

\* a critical dependency, built in or configured, is named in the text and
\* nothing else triggers
OnlyCriticalTrigger ==
  /\ \E i \in DOMAIN Text : Text[i] \in {"log4j", "lodash"}
  /\ ~SecurityTrigger
  /\ ~is_major_bump(prs[1].title, prs[1].body)

CriticalToggleOn ==
  /\ "critical" \in DOMAIN prs[1].create_jira_for
  /\ prs[1].create_jira_for.critical

\* C22: a pull request whose only trigger is the name of a critical
\* dependency gets no category when create_jira_for is empty, lacks the
\* critical-dep toggle or has it off, and the category critical-dep when the
\* toggle is on.
C22_CriticalRuleOffByDefault ==
  (phase = "classified" /\ OnlyCriticalTrigger) =>
    outcome = IF CriticalToggleOn THEN "critical-dep" ELSE "none"

C22_Witness ==
  /\ phase = "classified"
  /\ prs[1].title = <<"log4j">>
  /\ prs[1].body = <<>>
  /\ DOMAIN prs[1].create_jira_for = {"security", "major"}
  /\ outcome = "none"

\* the words of the text that are tokens (three characters or more) and no
\* stop words: those with a hyphen or a digit, and the plain ones
StrongSurvivors ==
  {prs[1].words[i] : i \in DOMAIN prs[1].words} \cap {"log4j-core", "junit5"}

PlainSurvivors == {prs[1].words[i] : i \in DOMAIN prs[1].words} \cap {"lodash", "react"}

Least(a, b) == IF a < b THEN a ELSE b

\* C23: the token query holds at most 2 different words of the text, each
\* of three characters or more and none a stop word in any case; the words
\* with a hyphen or a digit come first, and a plain word is taken only when
\* fewer than 2 of those exist; there is no query exactly when no word
\* survives.
C23_TokenQueryPrefersStrong ==
  phase = "built" =>
    /\ Len(found) <= 2
    /\ \A i, j \in DOMAIN found : i # j => found[i] # found[j]
    /\ \A i \in DOMAIN found : found[i] \in StrongSurvivors \cup PlainSurvivors
    /\ Cardinality({i \in DOMAIN found : found[i] \in StrongSurvivors})
         = Least(2, Cardinality(StrongSurvivors))
    /\ \A i, j \in DOMAIN found :
         (i < j /\ found[j] \in StrongSurvivors) => found[i] \in StrongSurvivors
    /\ (\E i \in DOMAIN found : found[i] \in PlainSurvivors) =>
         Cardinality(StrongSurvivors) < 2
    /\ Len(found) = Least(2, Cardinality(StrongSurvivors \cup PlainSurvivors))
    /\ outcome = "None" <=> StrongSurvivors \cup PlainSurvivors = {}

C23_Witness ==
  /\ phase = "built"
  /\ prs[1].words = <<"Update", "lodash", "junit5">>
  /\ found = <<"junit5", "lodash">>

\* the keys whose values are maps
MapKeys == {"create_jira_for", "jira", "github", "priority"}

RECURSIVE DeepMerge(_, _)
\* d overlaid by o, the maps in them merged key by key at every level
DeepMerge(d, o) ==
  [k \in (DOMAIN d) \cup (DOMAIN o) |->
     IF k \notin DOMAIN o THEN d[k]
     ELSE IF k \notin DOMAIN d THEN o[k]
     ELSE IF k \in MapKeys THEN DeepMerge(d[k], o[k])
     ELSE o[k]]

\* C24: the configuration of a repository whose file was read is the
\* defaults overlaid by the file, the maps merged key by key at every level:
\* a category left out of the file's jira priority map keeps its default
\* priority.
C24_ConfigMergesAtEveryLevel ==
  /\ (phase = "loaded" /\ clean) => conf = DeepMerge(defaults, pending)
  /\ (phase = "priority" /\ clean) =>
       outcome = DeepMerge(defaults, pending).jira.priority[found[1]]

\* the gates of process_pr on pull request idx, as the settings and the pull
\* request have them
GateEnabled == conf.enabled

GateOpen == prs[idx].state = "open"

GateLabelled ==
  \/ conf.requireLabels = {}
  \/ \E l \in prs[idx].labels, r \in conf.requireLabels : LowerLabel(l) = LowerLabel(r)

GateClassified ==
  \/ (prs[idx].cve \/ \E l \in prs[idx].labels : LowerLabel(l) = "security")
       /\ conf.create_jira_for.security
  \/ prs[idx].major /\ conf.create_jira_for.major
  \/ prs[idx].critical /\ conf.create_jira_for.critical

EarlyExits == {"disabled", "not_open", "missing_label", "no_rule"}

\* C25: process_pr passes its gates in the order enabled, open, required
\* label, classification, and only then looks for a ticket. A pull request
\* stopped at one of the four gates causes no request to the tracker and no
\* change of the pull request, and is not counted as created.
C25_GatesInOrderWithoutCalls ==
  [][(phase = "loop" /\ outcome' # "error") =>
       /\ outcome' = "disabled" <=> ~GateEnabled
       /\ outcome' = "not_open" <=> (GateEnabled /\ ~GateOpen)
       /\ outcome' = "missing_label" <=> (GateEnabled /\ GateOpen /\ ~GateLabelled)
       /\ outcome' = "no_rule" <=>
            (GateEnabled /\ GateOpen /\ GateLabelled /\ ~GateClassified)
       /\ outcome' \in EarlyExits =>
            /\ log' = <<>>
            /\ jira' = jira
            /\ prs' = prs
            /\ nextKey' = nextKey
            /\ preflight_ok' = preflight_ok
            /\ created_count' = created_count
            /\ created' = created]_vars

C25_Witness ==
  /\ outcome = "no_rule"
  /\ cur = 1
  /\ prs[1].comments # <<>>
  /\ log = <<>>
  /\ created_count = 0

\* ---- C26
\* The comments of pull request 1 name the withdrawn issue 1 first and the
\* replacement, issue 2, after it.
ReplacedAndCommented ==
  /\ FirstKey(prs[1].comments) = 1
  /\ jira[1].exists /\ Lower(jira[1].status) = "withdrawn"
  /\ jira[2].exists
  /\ \E i \in 1..Len(prs[1].comments) : prs[1].comments[i] = 2

\* C26: once a run has replaced the withdrawn ticket of pull request 1 and
\* commented the new key, a later mutating run without a failed request ends
\* pull request 1 as tracked and has created no further ticket for it.
C26_ReplacementIsTracked ==
  (clean /\ conf.mode = "run" /\ run >= 2 /\ cur = 1 /\ ReplacedAndCommented)
    => (outcome = "tracked" /\ created[1] = 1)

\* ---- C27
\* The comments gave a key and no read of its issue returned one.
UnreadableReference ==
  /\ ReturnedBy("pr_has_ticket_in_comments", TRUE)
  /\ Requested("get_issue")
  /\ ~Succeeded("get_issue")

\* no request but a read of the issue failed
OnlyFetchFailed ==
  \A i \in DOMAIN log : (log[i].op # "return" /\ ~log[i].ok) => log[i].op = "get_issue"

\* C27: a key of the comments whose issue cannot be read (the request fails or
\* the issue is absent) counts as an existing ticket that is neither withdrawn
\* nor in a skip status: no search, no create-issue, and the pull request ends
\* as tracked (as an error when another request failed), never as created.
C27_UnreadableReferenceIsKept ==
  (cur # NoKey /\ UnreadableReference) =>
    /\ ~Requested("search")
    /\ ~Requested("create")
    /\ ~ReturnedBy("jira_is_withdrawn", TRUE)
    /\ ~ReturnedBy("jira_has_skip_status", TRUE)
    /\ outcome \in {"tracked", "error"}
    /\ OnlyFetchFailed => outcome = "tracked"

C27_Witness ==
  /\ cur = 1
  /\ UnreadableReference
  /\ jira[1].exists /\ Lower(jira[1].status) = "withdrawn"
  /\ outcome = "tracked"

\* ---- C28
PreflightOps == {"myself", "project"}

\* the position in L of the first request op, 0 when there is none
FirstAt(L, op) ==
  IF \E i \in DOMAIN L : L[i].op = op
  THEN CHOOSE i \in DOMAIN L : L[i].op = op /\ \A j \in 1..(i - 1) : L[j].op # op
  ELSE 0

\* both checks of the preflight succeeded in L, the identity check first
PreflightPassedIn(L) ==
  /\ \E i \in DOMAIN L : L[i].op = "myself" /\ L[i].ok
  /\ \E i \in DOMAIN L : L[i].op = "project" /\ L[i].ok
  /\ FirstAt(L, "myself") < FirstAt(L, "project")

PreflightFailedIn(L) == \E i \in DOMAIN L : L[i].op \in PreflightOps /\ ~L[i].ok

\* C28: in a mutating run create-issue is called only for a project validated
\* in this run, before the call; the project enters the validated set only
\* with both checks succeeding, stays in it to the end of the run, and once in
\* it no preflight request is made; a failed preflight ends the pull request
\* as an error with no create-issue call and the validated set as it was.
C28_CreateOnlyAfterPreflight ==
  [][(run' = run /\ conf.mode = "run") =>
       /\ (\E i \in DOMAIN log' : log'[i].op = "create") =>
             /\ conf.project \in preflight_ok'
             /\ \/ conf.project \in preflight_ok
                \/ /\ PreflightPassedIn(log')
                   /\ FirstAt(log', "project") < FirstAt(log', "create")
       /\ preflight_ok \subseteq preflight_ok'
       /\ preflight_ok' # preflight_ok =>
             (PreflightPassedIn(log') /\ preflight_ok' = preflight_ok \cup {conf.project})
       /\ conf.project \in preflight_ok => NoEffectIn(log', PreflightOps)
       /\ PreflightFailedIn(log') =>
             /\ NoEffectIn(log', {"create"})
             /\ preflight_ok' = preflight_ok
             /\ outcome' = "error"]_vars

C28_Witness ==
  /\ conf.mode = "run"
  /\ cur = 2
  /\ outcome = "created"
  /\ Requested("create")
  /\ ~Requested("myself") /\ ~Requested("project")
  /\ conf.project \in preflight_ok

\* ---- C29
\* C29: on the same pull request, configuration and tracker, no request
\* failing, a dry run reaches the create step exactly when a mutating run
\* creates a ticket, and ends the pull request as tracked exactly when the
\* mutating run does.
C29_DryRunDecidesAsMutating ==
  (phase \in {"loop", "done"} /\ cur # NoKey /\ Len(found) = 1) =>
    /\ found[1] = "created" <=> outcome = "created"
    /\ found[1] = "tracked" <=> outcome = "tracked"

\* ---- C30
\* C30: prefixing a title with a key is idempotent: a title that a run has
\* prefixed is what the prefixing with the same key returns for it, and a
\* later run with the same key makes no title edit.
C30_PrefixIsIdempotent ==
  [][phase = "once" => (found' = found /\ log' = log)]_vars

====
